---- MODULE Spec2Model ----
(***************************************************************************)
(* Bloom detection and prediction core of krikera/bloom                    *)
(* (backend/bloom_detector.py, backend/bloom_predictor.py and the call     *)
(* sites in backend/app.py).                                               *)
(*                                                                         *)
(* Number representation.  Vegetation-index values, thresholds and         *)
(* confidences are integers in hundredths (0.75 is 75).  Quotients that    *)
(* the code leaves as floats are kept exact as pairs <<num, den>> with     *)
(* den > 0.  The value grid below has no two values exactly 0.05 or 0.10   *)
(* apart, so the exact comparisons against the step (0.05) and the         *)
(* prominence (0.1) agree with the binary floating-point ones.             *)
(*                                                                         *)
(* Python's None is the empty set and a present optional value x is {x}.   *)
(* A dict is a record; a key is present iff it is in the record's DOMAIN.  *)
(* Indices into a series are 0-based, as in the code: At(x, i) is x[i].    *)
(***************************************************************************)
EXTENDS Integers, Sequences, FiniteSets, TLC

VARIABLES
    pc,            \* which operation returned last
    ndvi_data,     \* detect_blooms argument: [ndim, vals]
    evi_data,      \* detect_blooms argument: None or a sequence (ten-thousandths)
    threshold,     \* detect_blooms argument: None or a value
    dates,         \* detect_blooms argument: None or a list of date strings
    bloom_events,  \* the list detect_blooms returned
    raised,        \* whether the last operation let an exception escape
    intensity,     \* what calculate_bloom_intensity returned, <<num, den>>
    timeseries_data,  \* analyze_trends argument: list of yearly summaries
    trends,           \* the dict analyze_trends returned
    historical_blooms,  \* predict_next_bloom argument: list of yearly analyses
    vegetation_type,    \* predict_next_bloom argument: None or a label
    current_date,       \* predict_next_bloom argument: None or a date string
    prediction,         \* the dict predict_next_bloom returned
    satellite_data,     \* calculate_ndvi / calculate_evi argument
    ndvi_index,         \* the array calculate_ndvi returned
    evi_index,          \* the array calculate_evi returned
    scan_request,       \* scan_region arguments: [bbox, grid_resolution]
    fetch_outcomes,     \* what fetch_data does for each grid point
    grid_points,        \* scan_region: the (lat, lon) list
    submitted,          \* how many grid points the executor was given
    work_queue,         \* the executor's queue of points not yet started
    running,            \* the points a worker thread is analysing
    future_results,     \* the results of the finished futures, by point
    yielded,            \* the points as_completed has handed to the loop
    bloom_results,      \* scan_region: the results kept so far
    analyzed_count,     \* scan_region: the loop counter
    regional_summary,   \* the dict scan_region returned
    trend_slope,        \* _interpret_trend: the slope argument
    trend_r_squared,    \* _interpret_trend: the r_squared argument
    trend_label         \* _interpret_trend: the string returned

detector_vars == <<ndvi_data, evi_data, threshold, dates, bloom_events, intensity>>
trend_vars == <<timeseries_data, trends>>
predictor_vars == <<historical_blooms, vegetation_type, current_date, prediction>>

calculator_vars == <<satellite_data, ndvi_index, evi_index>>

scanner_vars == <<scan_request, fetch_outcomes, grid_points, submitted, work_queue,
                  running, future_results, yielded, bloom_results,
                  analyzed_count, regional_summary>>

interpreter_vars == <<trend_slope, trend_r_squared, trend_label>>

vars == <<pc, raised, detector_vars, trend_vars, predictor_vars, calculator_vars,
          scanner_vars, interpreter_vars>>

(***************************************************************************)
(* Bounds and input sets                                                   *)
(***************************************************************************)
MaxLen == 5
MaxYears == 3
MaxHistory == 5
MaxPixels == 2
MaxPoints == 3
MaxSlope == 60
MaxShift == 4

ValueGrid == {20, 33, 40, 52, 60, 75}

\* the series of spec.md section 8: [0.2, 0.3, 0.45, 0.75, 0.5, 0.3] and [0.8]
ExampleSeries == <<20, 30, 45, 75, 50, 30>>
ExampleSingle == <<80>>

None == {}
Some(x) == {x}
Get(opt) == CHOOSE x \in opt : TRUE

At(x, i) == x[i + 1]

Min2(a, b) == IF a < b THEN a ELSE b
Max2(a, b) == IF a > b THEN a ELSE b

RECURSIVE SeqSum(_)
SeqSum(s) == IF s = <<>> THEN 0 ELSE Head(s) + SeqSum(Tail(s))

RECURSIVE SeqMax(_)
SeqMax(s) == IF Len(s) = 1 THEN s[1] ELSE Max2(Head(s), SeqMax(Tail(s)))

(***************************************************************************)
(* VegetationIndexCalculator.  An array is [shape, vals], vals in row      *)
(* order.  An element is an IEEE-754 value: finite num / den with den > 0, *)
(* or nan, or an infinity.  Band values are in eighths, which doubles hold *)
(* exactly, so the sums, differences and products below are exact in the   *)
(* code, and a quotient compares with -1, 0 and 1 as the exact one does.   *)
(***************************************************************************)
Finite(num, den) == [kind |-> "finite", num |-> num, den |-> den]
NaN == [kind |-> "nan", num |-> 0, den |-> 1]
PosInf == [kind |-> "posinf", num |-> 1, den |-> 1]
NegInf == [kind |-> "neginf", num |-> -1, den |-> 1]

\* np.array([])
EmptyArray == [shape |-> <<0>>, vals |-> <<>>]

\* np.array(values) of a list of numbers in hundredths, scaled by mul / div
ArrayOf(values, mul, div) ==
    [shape |-> <<Len(values)>>,
     vals |-> [k \in DOMAIN values |-> Finite(values[k] * mul, 100 * div)]]

\* a / b with np.errstate(divide='ignore', invalid='ignore')
Divide(a, b) ==
    IF b = 0 THEN (IF a = 0 THEN NaN ELSE IF a > 0 THEN PosInf ELSE NegInf)
    ELSE IF b < 0 THEN Finite(-a, -b)
    ELSE Finite(a, b)

\* variant: nan and the infinities are left in place
nan_to_num_kept(v) == v

\* np.nan_to_num(v, nan=0.0, posinf=0.0, neginf=0.0)
nan_to_num(v) == IF v.kind = "finite" THEN v ELSE Finite(0, 1)

\* np.clip(v, lo, hi); nan stays nan
clip(v, lo, hi) ==
    IF v.kind = "nan" THEN v
    ELSE IF v.kind = "posinf" THEN Finite(hi, 1)
    ELSE IF v.kind = "neginf" THEN Finite(lo, 1)
    ELSE IF v.num < lo * v.den THEN Finite(lo, 1)
    ELSE IF v.num > hi * v.den THEN Finite(hi, 1)
    ELSE v

\* d.get(key, default)
GetOr(d, key, default) == IF key \in DOMAIN d THEN d[key] ELSE default

\* _extract_band_data: None when the band has no asset, else the raster the
\* asset holds (here carried by the bands entry itself)
extract_band_data(satellite_data_arg, band) ==
    LET bands == GetOr(satellite_data_arg, "bands", <<>>)
    IN  IF band \in DOMAIN bands THEN Some(bands[band]) ELSE None

\* the values of a pre-calculated NDVI series, <<>> when there is none
PreCalculated(satellite_data_arg) ==
    IF "ndvi_data" \in DOMAIN satellite_data_arg
    THEN GetOr(satellite_data_arg.ndvi_data, "values", <<>>)
    ELSE <<>>

calculate_ndvi(satellite_data_arg) ==
    LET red == extract_band_data(satellite_data_arg, "red")
        nir == extract_band_data(satellite_data_arg, "nir")
    IN  IF GetOr(satellite_data_arg, "demo_mode", FALSE)
        THEN ArrayOf(GetOr(satellite_data_arg, "ndvi_values", <<>>), 1, 1)
        ELSE IF Len(PreCalculated(satellite_data_arg)) > 0
        THEN ArrayOf(PreCalculated(satellite_data_arg), 1, 1)
        ELSE IF red = None \/ nir = None THEN EmptyArray
        ELSE [shape |-> Get(nir).shape,
              vals |-> [k \in DOMAIN Get(nir).vals |->
                  clip(nan_to_num(Divide(Get(nir).vals[k] - Get(red).vals[k],
                                         Get(nir).vals[k] + Get(red).vals[k])),
                       -1, 1)]]

\* G * ((nir - red) / (nir + C1 * red - C2 * blue + L)) with G = 2.5, C1 = 6,
\* C2 = 7.5, L = 1, for band values in eighths
EviRatio(nir_value, red_value, blue_value) ==
    LET q == Divide(2 * (nir_value - red_value),
                    2 * nir_value + 12 * red_value - 15 * blue_value + 16)
    IN  IF q.kind = "finite" THEN Finite(5 * q.num, 2 * q.den) ELSE q

calculate_evi(satellite_data_arg) ==
    LET red == extract_band_data(satellite_data_arg, "red")
        nir == extract_band_data(satellite_data_arg, "nir")
        blue == extract_band_data(satellite_data_arg, "blue")
    IN  IF GetOr(satellite_data_arg, "demo_mode", FALSE)
        \* ndvi * 1.1
        THEN ArrayOf(GetOr(satellite_data_arg, "ndvi_values", <<>>), 11, 10)
        ELSE IF Len(PreCalculated(satellite_data_arg)) > 0
        \* np.array(values) * 1.15
        THEN ArrayOf(PreCalculated(satellite_data_arg), 115, 100)
        ELSE IF red = None \/ nir = None \/ blue = None THEN EmptyArray
        ELSE [shape |-> Get(nir).shape,
              vals |-> [k \in DOMAIN Get(nir).vals |->
                  clip(nan_to_num(EviRatio(Get(nir).vals[k], Get(red).vals[k],
                                           Get(blue).vals[k])),
                       -1, 1)]]

\* the calculator before any call
IdleCalculator ==
    /\ satellite_data = [demo_mode |-> FALSE]
    /\ ndvi_index = EmptyArray
    /\ evi_index = EmptyArray

\* no trend being interpreted
IdleInterpreter ==
    /\ trend_slope = <<0, 1>>
    /\ trend_r_squared = <<0, 1>>
    /\ trend_label = ""

\* the scanner before any scan
IdleScanner ==
    /\ scan_request = [bbox |-> <<0, 0, 0, 0>>, grid_resolution |-> 2]
    /\ fetch_outcomes = <<>>
    /\ grid_points = <<>>
    /\ submitted = 0
    /\ work_queue = <<>>
    /\ running = {}
    /\ future_results = <<>>
    /\ yielded = {}
    /\ bloom_results = <<>>
    /\ analyzed_count = 0
    /\ regional_summary = <<>>

(***************************************************************************)
(* BloomDetector.__init__                                                  *)
(***************************************************************************)
bloom_threshold == 40

(***************************************************************************)
(* scipy.signal.find_peaks(x, height, distance, prominence), as called by  *)
(* detect_blooms: local maxima (a flat top counts once, at its midpoint),  *)
(* then the height, distance and prominence filters, in that order.        *)
(***************************************************************************)
RECURSIVE Ahead(_, _, _)
Ahead(x, i, j) ==
    IF j < Len(x) - 1 /\ At(x, j) = At(x, i) THEN Ahead(x, i, j + 1) ELSE j

RECURSIVE LocalMaxima(_, _)
LocalMaxima(x, i) ==
    IF i >= Len(x) - 1 THEN <<>>
    ELSE IF At(x, i - 1) < At(x, i)
         THEN LET a == Ahead(x, i, i + 1)
              IN  IF At(x, a) < At(x, i)
                  THEN <<(i + a - 1) \div 2>> \o LocalMaxima(x, a + 1)
                  ELSE LocalMaxima(x, i + 1)
         ELSE LocalMaxima(x, i + 1)

SelectByHeight(x, peaks, height) ==
    SelectSeq(peaks, LAMBDA p : At(x, p) >= height)

RECURSIVE DistanceLoop(_, _, _, _, _)
DistanceLoop(x, peaks, distance, todo, keep) ==
    IF todo = {} THEN keep
    ELSE LET j == CHOOSE j \in todo : \A k \in todo :
                     \/ At(x, peaks[k]) < At(x, peaks[j])
                     \/ At(x, peaks[k]) = At(x, peaks[j]) /\ k <= j
             near == {k \in DOMAIN peaks :
                         /\ k # j
                         /\ peaks[k] - peaks[j] < distance
                         /\ peaks[j] - peaks[k] < distance}
         IN  IF j \in keep
             THEN DistanceLoop(x, peaks, distance, todo \ {j}, keep \ near)
             ELSE DistanceLoop(x, peaks, distance, todo \ {j}, keep)

SelectByDistance(x, peaks, distance) ==
    LET keep == DistanceLoop(x, peaks, distance, DOMAIN peaks, DOMAIN peaks)
        Kept(p) == \E k \in keep : peaks[k] = p
    IN  SelectSeq(peaks, Kept)

RECURSIVE LeftMin(_, _, _, _)
LeftMin(x, peak, i, m) ==
    IF i >= 0 /\ At(x, i) <= At(x, peak)
    THEN LeftMin(x, peak, i - 1, Min2(m, At(x, i)))
    ELSE m

RECURSIVE RightMin(_, _, _, _)
RightMin(x, peak, i, m) ==
    IF i <= Len(x) - 1 /\ At(x, i) <= At(x, peak)
    THEN RightMin(x, peak, i + 1, Min2(m, At(x, i)))
    ELSE m

PeakProminence(x, peak) ==
    At(x, peak) - Max2(LeftMin(x, peak, peak, At(x, peak)),
                       RightMin(x, peak, peak, At(x, peak)))

SelectByProminence(x, peaks, prominence) ==
    SelectSeq(peaks, LAMBDA p : PeakProminence(x, p) >= prominence)

\* mutant: the prominence filter left out
find_peaks_any_prominence(x, height, distance, prominence) ==
    SelectByDistance(x, SelectByHeight(x, LocalMaxima(x, 1), height), distance)

find_peaks(x, height, distance, prominence) ==
    SelectByProminence(x,
        SelectByDistance(x,
            SelectByHeight(x, LocalMaxima(x, 1), height),
            distance),
        prominence)

(***************************************************************************)
(* BloomDetector helpers                                                   *)
(***************************************************************************)
RECURSIVE StartLoop(_, _)
StartLoop(x, i) ==
    IF i < 0 THEN 0
    ELSE IF i = 0 THEN 0
    ELSE IF At(x, i + 1) - At(x, i) < 5 THEN i + 1
    ELSE StartLoop(x, i - 1)

\* mutant: the backward scan starts at the peak instead of before it
find_bloom_start_from_peak(x, peak_idx) ==
    IF peak_idx = 0 THEN 0 ELSE StartLoop(x, peak_idx)

find_bloom_start(x, peak_idx) ==
    IF peak_idx = 0 THEN 0 ELSE StartLoop(x, peak_idx - 1)

RECURSIVE EndLoop(_, _)
EndLoop(x, i) ==
    IF i > Len(x) - 1 THEN Len(x) - 1
    ELSE IF i = Len(x) - 1 THEN i
    ELSE IF At(x, i) - At(x, i - 1) < -5 THEN EndLoop(x, i + 1)
    ELSE IF At(x, i) < bloom_threshold THEN i
    ELSE EndLoop(x, i + 1)

find_bloom_end(x, peak_idx) ==
    IF peak_idx >= Len(x) - 1 THEN Len(x) - 1 ELSE EndLoop(x, peak_idx + 1)

\* mutant: the breakpoints fall into the lower step
calculate_confidence_inclusive(ndvi_value) ==
    IF ndvi_value < bloom_threshold THEN 0
    ELSE IF ndvi_value <= 50 THEN 50
    ELSE IF ndvi_value <= 60 THEN 70
    ELSE IF ndvi_value <= 70 THEN 85
    ELSE 95

calculate_confidence(ndvi_value) ==
    IF ndvi_value < bloom_threshold THEN 0
    ELSE IF ndvi_value < 50 THEN 50
    ELSE IF ndvi_value < 60 THEN 70
    ELSE IF ndvi_value < 70 THEN 85
    ELSE 95

\* the mean of the segment against 0.4, 0.6 and 0.75, without dividing
calculate_intensity(ndvi_segment) ==
    LET total == SeqSum(ndvi_segment)
        n == Len(ndvi_segment)
    IN  IF total < 40 * n THEN "low"
        ELSE IF total < 60 * n THEN "moderate"
        ELSE IF total < 75 * n THEN "high"
        ELSE "very_high"

(***************************************************************************)
(* BloomDetector.detect_blooms                                             *)
(***************************************************************************)
SingleObservation(value) ==
    [type |-> "single_observation", ndvi |-> value, is_blooming |-> TRUE,
     confidence |-> calculate_confidence(value)]

\* mutant: the mean taken over the whole series instead of the masked part
SustainedBloom_unmasked_mean(x, thr) ==
    [type |-> "sustained_bloom",
     peak_ndvi |-> SeqMax(x),
     mean_ndvi |-> <<SeqSum(x), Len(x)>>,
     duration_observations |-> Len(SelectSeq(x, LAMBDA v : v >= thr)),
     confidence |-> 70]

SustainedBloom(x, thr) ==
    LET high == SelectSeq(x, LAMBDA v : v >= thr)
    IN  [type |-> "sustained_bloom",
         peak_ndvi |-> SeqMax(x),
         mean_ndvi |-> <<SeqSum(high), Len(high)>>,
         duration_observations |-> Len(high),
         confidence |-> 70]

PeakBloom(x, evi, dts, peak_idx) ==
    LET start_idx == find_bloom_start(x, peak_idx)
        end_idx == find_bloom_end(x, peak_idx)
        base == [type |-> "peak_bloom",
                 peak_index |-> peak_idx,
                 start_index |-> start_idx,
                 end_index |-> end_idx,
                 peak_ndvi |-> At(x, peak_idx),
                 start_ndvi |-> At(x, start_idx),
                 end_ndvi |-> At(x, end_idx),
                 duration_observations |-> end_idx - start_idx + 1,
                 increase_rate |-> <<At(x, peak_idx) - At(x, start_idx),
                                     Max2(peak_idx - start_idx, 1)>>,
                 confidence |-> calculate_confidence(At(x, peak_idx)),
                 intensity |-> calculate_intensity(
                                   SubSeq(x, start_idx + 1, end_idx + 1))]
        dated == IF /\ dts # None
                    /\ Len(Get(dts)) > 0
                    /\ Len(Get(dts)) > Max2(peak_idx, Max2(end_idx, start_idx))
                 THEN [start_date |-> At(Get(dts), start_idx),
                       peak_date |-> At(Get(dts), peak_idx),
                       end_date |-> At(Get(dts), end_idx)]
                 ELSE <<>>
        withevi == IF evi # None /\ Len(Get(evi)) > peak_idx
                   THEN [peak_evi |-> At(Get(evi), peak_idx)]
                   ELSE <<>>
    IN  base @@ dated @@ withevi

\* len(ndvi_data): the first dimension; an unsized object has none
ArrayLen(nd) == nd.shape[1]

\* The body of the try block: [fault, events], fault when a statement raises.
\*   ndim 0: len() of an unsized object raises TypeError (line 63);
\*   ndim 2, one row: float() of an array of more than one element raises
\*           TypeError (line 73);
\*   ndim 2, two rows or more: find_peaks rejects an x that is not 1-D
\*           (line 87).
DetectBody(nd, evi, thr_arg, dts) ==
    LET Fault == [fault |-> TRUE, events |-> <<>>]
        Return(evs) == [fault |-> FALSE, events |-> evs]
        x == nd.vals
        thr == IF thr_arg # None THEN Get(thr_arg) ELSE bloom_threshold
    IN  IF nd.ndim = 0 THEN Fault
        ELSE IF ArrayLen(nd) = 0 THEN Return(<<>>)
        ELSE IF ArrayLen(nd) = 1
             THEN IF Len(x) # 1 THEN Fault
                  ELSE IF x[1] >= thr
                       THEN Return(<<SingleObservation(x[1])>>)
                       ELSE Return(<<>>)
        ELSE IF nd.ndim # 1 THEN Fault
        ELSE LET peaks == find_peaks(x, thr, 2, 10)
             IN  IF Len(peaks) = 0
                 THEN IF Len(SelectSeq(x, LAMBDA v : v >= thr)) >= 2
                      THEN Return(<<SustainedBloom(x, thr)>>)
                      ELSE Return(<<>>)
                 ELSE Return([k \in DOMAIN peaks |->
                                 PeakBloom(x, evi, dts, peaks[k])])

\* mutant: no except clause, a fault escapes
detect_blooms_unguarded(nd, evi, thr_arg, dts) ==
    LET body == DetectBody(nd, evi, thr_arg, dts)
    IN  [raised |-> body.fault, events |-> body.events]

\* except Exception: return []
detect_blooms(nd, evi, thr_arg, dts) ==
    LET body == DetectBody(nd, evi, thr_arg, dts)
    IN  IF body.fault
        THEN [raised |-> FALSE, events |-> <<>>]
        ELSE [raised |-> FALSE, events |-> body.events]

(***************************************************************************)
(* BloomDetector.calculate_bloom_intensity: clip((mean - 0.4) / 0.6, 0, 1) *)
(* of the events' peak_ndvi, a missing key reading as 0.                   *)
(***************************************************************************)
EventPeak(event) ==
    IF "peak_ndvi" \in DOMAIN event THEN event.peak_ndvi ELSE 0

Clip01(q) ==
    IF q[1] < 0 THEN <<0, 1>> ELSE IF q[1] > q[2] THEN <<1, 1>> ELSE q

calculate_bloom_intensity(events) ==
    IF Len(events) = 0 THEN <<0, 1>>
    ELSE LET peak_ndvis == [k \in DOMAIN events |-> EventPeak(events[k])]
             n == Len(peak_ndvis)
         IN  Clip01(<<SeqSum(peak_ndvis) - 40 * n, 60 * n>>)

(***************************************************************************)
(* Inputs of the detector                                                  *)
(***************************************************************************)
SeriesUpTo(n) == UNION {[1..k -> ValueGrid] : k \in 0..n}

\* An array is [ndim, shape, vals], vals being its elements in row-major
\* order: 1-D series, 0-d scalars, and 2-D rasters of 1 or 2 rows by 1 or 2
\* columns (what calculate_ndvi returns when it computes from band rasters).
NdviInputs ==
    {[ndim |-> 1, shape |-> <<Len(s)>>, vals |-> s] :
         s \in SeriesUpTo(MaxLen) \cup {ExampleSeries, ExampleSingle}}
    \cup {[ndim |-> 0, shape |-> <<>>, vals |-> <<v>>] : v \in {33, 75}}
    \cup {[ndim |-> 2, shape |-> <<rows, cols>>,
           vals |-> [k \in 1..(rows * cols) |-> v]] :
              rows \in 1..2, cols \in 1..2, v \in {33, 75}}

\* EVI as calculate_evi derives it from a pre-computed NDVI series (x 1.15),
\* in ten-thousandths
DerivedEvi(x) == [k \in DOMAIN x |-> 115 * x[k]]

DateList(n) == [k \in 1..n |-> <<2024, 4, k>>]

\* (evi_data, dates) as the call sites pass them
Payloads(nd) ==
    IF nd.ndim # 1 THEN {<<None, None>>}
    ELSE LET n == Len(nd.vals)
         IN  {<<None, None>>,
              <<Some(DerivedEvi(nd.vals)), Some(DateList(n))>>,
              <<Some(<<>>), Some(DateList(IF n > 0 THEN n - 1 ELSE 0))>>}

ThresholdArgs == {None, Some(30)}

(***************************************************************************)
(* The detector as a state machine: one action per public operation        *)
(***************************************************************************)
Init ==
    /\ pc = "ready"
    /\ evi_data = None
    /\ dates = None
    /\ threshold = None
    /\ bloom_events = <<>>
    /\ raised = FALSE
    /\ intensity = <<0, 1>>
    /\ timeseries_data = <<>>
    /\ trends = <<>>
    /\ historical_blooms = <<>>
    /\ vegetation_type = None
    /\ current_date = None
    /\ prediction = <<>>
    /\ IdleCalculator
    /\ IdleScanner
    /\ IdleInterpreter
    /\ ndvi_data \in NdviInputs

DetectBlooms ==
    \E thr \in ThresholdArgs, pl \in Payloads(ndvi_data) :
        LET r == detect_blooms(ndvi_data, pl[1], thr, pl[2])
        IN  /\ pc = "ready"
            /\ pc' = "detected"
            /\ threshold' = thr
            /\ evi_data' = pl[1]
            /\ dates' = pl[2]
            /\ bloom_events' = r.events
            /\ raised' = r.raised
            /\ intensity' = <<0, 1>>
            /\ UNCHANGED <<ndvi_data, trend_vars, predictor_vars, calculator_vars,
                           scanner_vars,
                   interpreter_vars>>

CalculateBloomIntensity ==
    /\ pc = "detected"
    /\ pc' = "scored"
    /\ intensity' = calculate_bloom_intensity(bloom_events)
    /\ UNCHANGED <<ndvi_data, evi_data, threshold, dates, bloom_events, raised>>
    /\ UNCHANGED <<trend_vars, predictor_vars, calculator_vars, scanner_vars,
                   interpreter_vars>>

Next == DetectBlooms \/ CalculateBloomIntensity

Spec == Init /\ [][Next]_vars

(***************************************************************************)
(* scipy.stats.linregress(x, y) on integers: the three centred sums, each   *)
(* times n squared.  slope = sxy / sxx, r = sxy / sqrt(sxx * syy), r = 0    *)
(* when sxx or syy is 0; identical x values raise ValueError.               *)
(***************************************************************************)
linregress(xs, ys) ==
    LET n == Len(xs)
        sx == SeqSum(xs)
        sy == SeqSum(ys)
    IN  [fault |-> n * SeqSum([k \in 1..n |-> xs[k] * xs[k]]) - sx * sx = 0,
         sxy |-> n * SeqSum([k \in 1..n |-> xs[k] * ys[k]]) - sx * sy,
         sxx |-> n * SeqSum([k \in 1..n |-> xs[k] * xs[k]]) - sx * sx,
         syy |-> n * SeqSum([k \in 1..n |-> ys[k] * ys[k]]) - sy * sy]

\* r_value ** 2
RSquared(reg) ==
    IF reg.sxx = 0 \/ reg.syy = 0 THEN <<0, 1>>
    ELSE <<reg.sxy * reg.sxy, reg.sxx * reg.syy>>

\* 'increasing' if slope > 0 else 'decreasing'
Direction(slope) == IF slope[1] > 0 THEN "increasing" ELSE "decreasing"

Abs(a) == IF a < 0 THEN -a ELSE a

(***************************************************************************)
(* BloomDetector._interpret_trend(slope, r_squared), slope in index units   *)
(* per year                                                                *)
(***************************************************************************)
\* variant: a slope of exactly 0.05 already counts as strong
interpret_trend_inclusive(slope, r_squared) ==
    IF 10 * r_squared[1] < 3 * r_squared[2] THEN "no_clear_trend"
    ELSE IF 100 * Abs(slope[1]) < slope[2] THEN "stable"
    ELSE IF slope[1] > 0
         THEN IF 100 * slope[1] >= 5 * slope[2] THEN "strong_increase"
              ELSE "moderate_increase"
         ELSE IF 100 * slope[1] <= -5 * slope[2] THEN "strong_decrease"
              ELSE "moderate_decrease"

interpret_trend(slope, r_squared) ==
    IF 10 * r_squared[1] < 3 * r_squared[2] THEN "no_clear_trend"
    ELSE IF 100 * Abs(slope[1]) < slope[2] THEN "stable"
    ELSE IF slope[1] > 0
         THEN IF 100 * slope[1] > 5 * slope[2] THEN "strong_increase"
              ELSE "moderate_increase"
         ELSE IF 100 * slope[1] < -5 * slope[2] THEN "strong_decrease"
              ELSE "moderate_decrease"

(***************************************************************************)
(* BloomDetector.analyze_trends                                            *)
(***************************************************************************)
RECURSIVE Gcd(_, _)
Gcd(a, b) == IF b = 0 THEN a ELSE Gcd(b, a % b)

Lcm(a, b) == (a \div Gcd(a, b)) * b

RECURSIVE SeqLcm(_)
SeqLcm(s) == IF s = <<>> THEN 1 ELSE Lcm(Head(s), SeqLcm(Tail(s)))

RECURSIVE SeqMin(_)
SeqMin(s) == IF Len(s) = 1 THEN s[1] ELSE Min2(Head(s), SeqMin(Tail(s)))

\* year-over-year changes; ZeroDivisionError when the earlier peak is 0
YearOverYear(years, peak_ndvis) ==
    [fault |-> \E i \in 1..(Len(peak_ndvis) - 1) : peak_ndvis[i] = 0,
     changes |-> [i \in 1..(Len(peak_ndvis) - 1) |->
                    [from_year |-> years[i],
                     to_year |-> years[i + 1],
                     percent_change |->
                         <<100 * (peak_ndvis[i + 1] - peak_ndvis[i]),
                           peak_ndvis[i]>>]]]

\* The body of the try block: [fault, value]
TrendsBody(data) ==
    LET n == Len(data)
        years == [k \in 1..n |-> data[k].year]
        peak_ndvis == [k \in 1..n |-> data[k].peak_ndvi]
        \* average_ndvi is a quotient <<sum, count>>: the averages are
        \* brought to the common denominator avg_den before regressing
        avg_den == SeqLcm([k \in 1..n |-> data[k].average_ndvi[2]])
        avg_ndvis == [k \in 1..n |->
                        data[k].average_ndvi[1]
                            * (avg_den \div data[k].average_ndvi[2])]
        reg_peak == linregress(years, peak_ndvis)
        reg_avg == linregress(years, avg_ndvis)
        slope_peak == <<reg_peak.sxy, 100 * reg_peak.sxx>>
        slope_avg == <<reg_avg.sxy, 100 * avg_den * reg_avg.sxx>>
        event_counts == [k \in 1..n |-> Len(data[k].bloom_events)]
        yoy == YearOverYear(years, peak_ndvis)
        regressions ==
            [peak_ndvi_trend |->
                 [slope |-> slope_peak,
                  direction |-> Direction(slope_peak),
                  r_squared |-> RSquared(reg_peak),
                  interpretation |->
                      interpret_trend(slope_peak, RSquared(reg_peak))],
             average_ndvi_trend |->
                 [slope |-> slope_avg,
                  direction |-> Direction(slope_avg),
                  r_squared |-> RSquared(reg_avg)],
             bloom_frequency |->
                 [average |-> <<SeqSum(event_counts), n>>,
                  min |-> SeqMin(event_counts),
                  max |-> SeqMax(event_counts)]]
        Fault == [fault |-> TRUE, value |-> <<>>]
    IN  IF n = 0 THEN [fault |-> FALSE, value |-> [status |-> "no_data"]]
        ELSE IF n < 2 THEN [fault |-> FALSE, value |-> <<>>]
        ELSE IF reg_peak.fault \/ reg_avg.fault THEN Fault
        ELSE IF yoy.fault THEN Fault
        ELSE [fault |-> FALSE,
              value |-> regressions @@ [year_over_year_changes |-> yoy.changes]]

\* except Exception: return {'status': 'error', 'message': str(e)}
analyze_trends(data) ==
    LET body == TrendsBody(data)
    IN  IF body.fault
        THEN [raised |-> FALSE,
              value |-> [status |-> "error", message |-> "exception"]]
        ELSE [raised |-> FALSE, value |-> body.value]

(***************************************************************************)
(* get_bloom_timeseries (app.py): one yearly summary per requested year,   *)
(* from the season's NDVI series                                           *)
(***************************************************************************)
AsSeries(s) == [ndim |-> 1, shape |-> <<Len(s)>>, vals |-> s]

YearlySummary(year, ndvi) ==
    [year |-> year,
     season |-> "spring",
     bloom_events |-> detect_blooms(AsSeries(ndvi), None, None, None).events,
     peak_ndvi |-> IF Len(ndvi) > 0 THEN SeqMax(ndvi) ELSE 0,
     average_ndvi |-> IF Len(ndvi) > 0 THEN <<SeqSum(ndvi), Len(ndvi)>>
                      ELSE <<0, 1>>]

\* the season series of a year: no usable bands (empty array), one bloom,
\* a stronger bloom, two blooms
SeasonSeries ==
    {<<>>, <<20, 60, 20>>, <<20, 33, 75, 33>>, <<20, 52, 20, 40, 20>>}

Years == 2020..(2020 + MaxYears - 1)

TimeseriesInputs ==
    UNION {[1..n -> {YearlySummary(y, s) : y \in Years, s \in SeasonSeries}] :
               n \in 0..MaxYears}

InitTrends ==
    /\ pc = "ready"
    /\ raised = FALSE
    /\ ndvi_data = AsSeries(<<>>)
    /\ evi_data = None
    /\ dates = None
    /\ threshold = None
    /\ bloom_events = <<>>
    /\ intensity = <<0, 1>>
    /\ timeseries_data \in TimeseriesInputs
    /\ trends = <<>>
    /\ historical_blooms = <<>>
    /\ vegetation_type = None
    /\ current_date = None
    /\ prediction = <<>>
    /\ IdleCalculator
    /\ IdleScanner
    /\ IdleInterpreter

AnalyzeTrends ==
    LET r == analyze_trends(timeseries_data)
    IN  /\ pc = "ready"
        /\ pc' = "analyzed"
        /\ trends' = r.value
        /\ raised' = r.raised
        /\ UNCHANGED <<detector_vars, timeseries_data, predictor_vars,
                       calculator_vars, scanner_vars,
                   interpreter_vars>>

NextTrends == AnalyzeTrends

SpecTrends == InitTrends /\ [][NextTrends]_vars

(***************************************************************************)
(* _interpret_trend on its own: slopes in thousandths of an index unit per *)
(* year within MaxSlope of 0, r squared in hundredths within [0, 1].       *)
(***************************************************************************)
InitInterpret ==
    /\ pc = "ready"
    /\ raised = FALSE
    /\ ndvi_data = AsSeries(<<>>)
    /\ evi_data = None
    /\ dates = None
    /\ threshold = None
    /\ bloom_events = <<>>
    /\ intensity = <<0, 1>>
    /\ timeseries_data = <<>>
    /\ trends = <<>>
    /\ historical_blooms = <<>>
    /\ vegetation_type = None
    /\ current_date = None
    /\ prediction = <<>>
    /\ IdleCalculator
    /\ IdleScanner
    /\ \E s \in (-MaxSlope)..MaxSlope : trend_slope = <<s, 1000>>
    /\ \E r \in 0..100 : trend_r_squared = <<r, 100>>
    /\ trend_label = ""

\* self._interpret_trend(slope_peak, r_value_peak ** 2)
InterpretTrend ==
    /\ pc = "ready"
    /\ pc' = "interpreted"
    /\ trend_label' = interpret_trend(trend_slope, trend_r_squared)
    /\ UNCHANGED <<raised, detector_vars, trend_vars, predictor_vars,
                   calculator_vars, scanner_vars, trend_slope, trend_r_squared>>

NextInterpret == InterpretTrend

SpecInterpret == InitInterpret /\ [][NextInterpret]_vars

(***************************************************************************)
(* datetime.  A date string 'YYYY-MM-DD' is the tuple <<y, m, d>>; a        *)
(* datetime is its proleptic Gregorian ordinal (date.toordinal()).         *)
(***************************************************************************)
IsLeap(y) == (y % 4 = 0 /\ y % 100 # 0) \/ y % 400 = 0

DaysInMonth(y, m) ==
    IF m = 2 THEN (IF IsLeap(y) THEN 29 ELSE 28)
    ELSE IF m \in {4, 6, 9, 11} THEN 30 ELSE 31

\* the days of a common year that precede each month
DaysBeforeMonthTable == <<0, 31, 59, 90, 120, 151, 181, 212, 243, 273, 304, 334>>

DaysBeforeMonth(y, m) ==
    DaysBeforeMonthTable[m] + (IF m > 2 /\ IsLeap(y) THEN 1 ELSE 0)

DaysBeforeYear(y) ==
    365 * (y - 1) + ((y - 1) \div 4) - ((y - 1) \div 100) + ((y - 1) \div 400)

Ordinal(date) ==
    DaysBeforeYear(date[1]) + DaysBeforeMonth(date[1], date[2]) + date[3]

\* whether strptime(text, '%Y-%m-%d') succeeds
Parses(text) ==
    /\ text[1] >= 1
    /\ text[2] \in 1..12
    /\ text[3] \in 1..DaysInMonth(text[1], text[2])

strptime(text) == Ordinal(text)

YearOf(dt) ==
    LET guess == dt \div 365 + 1
    IN  CHOOSE y \in (guess - 2)..(guess + 1) :
            DaysBeforeYear(y) < dt /\ dt <= DaysBeforeYear(y + 1)

\* tm_yday
DayOfYear(dt) == dt - DaysBeforeYear(YearOf(dt))

\* the month of the yday-th day of year y: no month is longer than 31 days,
\* so it is the estimate (yday - 1) // 31 + 1 or the month after it
MonthInYear(y, yday) ==
    LET m == (yday - 1) \div 31 + 1
    IN  IF yday <= DaysBeforeMonth(y, m) + DaysInMonth(y, m) THEN m ELSE m + 1

MonthOf(dt) == MonthInYear(YearOf(dt), DayOfYear(dt))

strftime(dt) ==
    LET y == YearOf(dt)
        yday == dt - DaysBeforeYear(y)
        m == MonthInYear(y, yday)
    IN  <<y, m, yday - DaysBeforeMonth(y, m)>>

\* datetime(year, 1, 1)
NewYear(y) == DaysBeforeYear(y) + 1

(***************************************************************************)
(* numpy on lists of integers                                              *)
(***************************************************************************)
\* int(q) of a quotient num / den, den > 0: truncation toward zero
Trunc(num, den) == IF num >= 0 THEN num \div den ELSE -((-num) \div den)

\* int(np.mean(s))
IntMean(s) == Trunc(SeqSum(s), Len(s))

\* the largest k in lo..hi with k * k <= q, by bisection
RECURSIVE RootSearch(_, _, _)
RootSearch(q, lo, hi) ==
    IF lo = hi THEN lo
    ELSE LET mid == (lo + hi + 1) \div 2
         IN  IF mid * mid <= q THEN RootSearch(q, mid, hi)
             ELSE RootSearch(q, lo, mid - 1)

\* int(sqrt(a / b)), a >= 0, b > 0
IntRoot(a, b) == RootSearch(a \div b, 0, Min2(a \div b, 46340))

\* variant: the sample standard deviation (n - 1 in the denominator)
IntStd_sample(s) ==
    LET n == Len(s)
    IN  IntRoot(n * SeqSum([k \in 1..n |-> s[k] * s[k]]) - SeqSum(s) * SeqSum(s),
                n * (n - 1))

\* int(np.std(s)): the population standard deviation
IntStd(s) ==
    LET n == Len(s)
    IN  IntRoot(n * SeqSum([k \in 1..n |-> s[k] * s[k]]) - SeqSum(s) * SeqSum(s),
                n * n)

\* the k-th smallest element of s
Kth(s, k) ==
    CHOOSE v \in {s[i] : i \in DOMAIN s} :
        /\ Cardinality({i \in DOMAIN s : s[i] < v}) < k
        /\ Cardinality({i \in DOMAIN s : s[i] <= v}) >= k

\* np.median(s) as a quotient
Median(s) ==
    LET n == Len(s)
    IN  IF n % 2 = 1 THEN <<Kth(s, (n + 1) \div 2), 1>>
        ELSE <<Kth(s, n \div 2) + Kth(s, n \div 2 + 1), 2>>

IntMedian(s) == Trunc(Median(s)[1], Median(s)[2])

(***************************************************************************)
(* BloomPredictor: the three methods.  Confidences are in ten-thousandths.  *)
(***************************************************************************)
\* variant: always the year after the current date's
NextYear_following(current, avg_month) == YearOf(current) + 1

\* current_date.year if current_date.month < avg_month else year + 1
NextYear(current, avg_month) ==
    IF MonthOf(current) < avg_month THEN YearOf(current) ELSE YearOf(current) + 1

statistical_prediction(bloom_dates, peak_ndvi_values, current) ==
    LET n == Len(bloom_dates)
        days_of_year == [k \in 1..n |-> DayOfYear(bloom_dates[k])]
        avg_doy == IntMean(days_of_year)
        std_doy == IF n > 1 THEN IntStd(days_of_year) ELSE 14
        avg_month == IntMean([k \in 1..n |-> MonthOf(bloom_dates[k])])
        next_year == NextYear(current, avg_month)
        predicted_date == NewYear(next_year) + (avg_doy - 1)
    IN  [method |-> "statistical_average",
         predicted_date |-> strftime(predicted_date),
         predicted_peak_ndvi |-> <<SeqSum(peak_ndvi_values), n>>,
         uncertainty_days |-> std_doy,
         confidence |-> Min2(6000 + n * 500, 8500),
         date_range |-> [earliest |-> strftime(predicted_date - std_doy),
                         latest |-> strftime(predicted_date + std_doy)]]

\* A vegetation_type argument is a string, [text |-> the sequence of its
\* words], or a value of another type, [number |-> n]
IsText(v) == "text" \in DOMAIN v

\* if vegetation_type:
Truthy(v) == IF IsText(v) THEN Len(v.text) > 0 ELSE v.number # 0

\* 'desert' in vegetation_type raises TypeError when vegetation_type is not
\* iterable
vegetation_fault(veg_type) ==
    veg_type # None /\ Truthy(Get(veg_type)) /\ ~IsText(Get(veg_type))

\* 'desert' in vegetation_type
HasWord(label, word) == \E k \in DOMAIN label.text : label.text[k] = word

\* the strongest bloom of each year, the first one on ties (positions in
\* bloom_dates, in list order)
PrimaryBlooms(bloom_dates, peak_ndvi_values) ==
    LET SameYear(i, j) == YearOf(bloom_dates[i]) = YearOf(bloom_dates[j])
        IsPrimary(i) ==
            \A j \in DOMAIN bloom_dates :
                SameYear(i, j) =>
                    \/ peak_ndvi_values[j] < peak_ndvi_values[i]
                    \/ peak_ndvi_values[j] = peak_ndvi_values[i] /\ i <= j
        picked == SelectSeq([k \in DOMAIN bloom_dates |-> k], IsPrimary)
    IN  [k \in DOMAIN picked |-> bloom_dates[picked[k]]]

pattern_based_prediction(bloom_dates, peak_ndvi_values, current, veg_type) ==
    LET primary_blooms == PrimaryBlooms(bloom_dates, peak_ndvi_values)
        n == Len(primary_blooms)
        days_of_year == [k \in 1..n |-> DayOfYear(primary_blooms[k])]
        median_doy == IntMedian(days_of_year)
        adjustment ==
            IF veg_type # None /\ Truthy(Get(veg_type))
            THEN IF HasWord(Get(veg_type), "desert") THEN -5
                 ELSE IF HasWord(Get(veg_type), "tree") THEN -7
                 ELSE 0
            ELSE 0
        predicted_doy == median_doy + adjustment
        avg_month == IntMedian([k \in 1..n |-> MonthOf(primary_blooms[k])])
        next_year == NextYear(current, avg_month)
        predicted_date == NewYear(next_year) + (predicted_doy - 1)
    IN  [method |-> "pattern_based",
         predicted_date |-> strftime(predicted_date),
         predicted_peak_ndvi |-> Median(peak_ndvi_values),
         uncertainty_days |-> IF n > 1 THEN IntStd(days_of_year) ELSE 10,
         confidence |-> Min2(6500 + n * 500, 8800),
         adjustment_applied |-> adjustment]

\* floor(a * 10^digits / b) by long division, one decimal digit at a time
RECURSIVE LongDivStep(_, _, _, _)
LongDivStep(q, r, b, digits) ==
    IF digits = 0 THEN q
    ELSE LongDivStep(10 * q + (10 * r) \div b, (10 * r) % b, b, digits - 1)

LongDiv(a, b, digits) == LongDivStep(a \div b, a % b, b, digits)

\* floor(100 * |r_value|): r squared = sxy^2 / (sxx * syy), taken to four
\* decimals before the root
AbsRCent(reg) ==
    IF reg.sxx = 0 \/ reg.syy = 0 THEN 0
    ELSE IntRoot(LongDiv(reg.sxy * reg.sxy, reg.sxx * reg.syy, 4), 1)

\* BloomPredictor._interpret_trend(days_per_year, r_squared)
interpret_timing_trend(slope, r_squared) ==
    IF 10 * r_squared[1] < 3 * r_squared[2] THEN "no_clear_trend"
    ELSE IF 2 * Abs(slope[1]) < slope[2] THEN "stable"
    ELSE IF slope[1] < -2 * slope[2] THEN "strong_earlier"
    ELSE IF slope[1] < 0 THEN "moderate_earlier"
    ELSE IF slope[1] > 2 * slope[2] THEN "strong_later"
    ELSE "slight_later"

trend_adjusted_prediction(bloom_dates, peak_ndvi_values, current) ==
    LET n == Len(bloom_dates)
        years == [k \in 1..n |-> YearOf(bloom_dates[k])]
        days_of_year == [k \in 1..n |-> DayOfYear(bloom_dates[k])]
        reg == linregress(years, days_of_year)
        slope == <<reg.sxy, reg.sxx>>
        avg_month == IntMean([k \in 1..n |-> MonthOf(bloom_dates[k])])
        next_year == NextYear(current, avg_month)
        \* slope * next_year + intercept, intercept = mean(y) - slope * mean(x)
        predicted_doy ==
            Trunc(SeqSum(days_of_year) * reg.sxx
                      + reg.sxy * (n * next_year - SeqSum(years)),
                  n * reg.sxx)
        predicted_date == NewYear(next_year) + (predicted_doy - 1)
    IN  IF n < 3
        THEN statistical_prediction(bloom_dates, peak_ndvi_values, current)
        ELSE IF Cardinality({years[k] : k \in 1..n}) >= 3
        THEN [method |-> "trend_adjusted",
              predicted_date |-> strftime(predicted_date),
              predicted_peak_ndvi |-> <<SeqSum(peak_ndvi_values), n>>,
              uncertainty_days |-> IntStd(days_of_year),
              confidence |-> Min2(7000 + AbsRCent(reg) * 20, 9200),
              trend |-> [direction |-> IF slope[1] < 0 THEN "earlier" ELSE "later",
                         rate_days_per_year |-> slope,
                         magnitude |->
                             IF Abs(slope[1]) > 2 * slope[2] THEN "strong"
                             ELSE IF 2 * Abs(slope[1]) > slope[2] THEN "moderate"
                             ELSE "weak",
                         r_squared |-> RSquared(reg)],
              interpretation |-> interpret_timing_trend(slope, RSquared(reg))]
        ELSE statistical_prediction(bloom_dates, peak_ndvi_values, current)

(***************************************************************************)
(* BloomPredictor._ensemble_prediction.  Weights are in hundredths, the    *)
(* ensemble confidence in millionths (confidence x weight).                *)
(***************************************************************************)
Methods == <<"statistical", "pattern_based", "trend_adjusted">>

\* variant: the reweighting starts only above 5 years
Weights_above_five(n_years) ==
    IF n_years > 5
    THEN [statistical |-> 30, pattern_based |-> 35, trend_adjusted |-> 35]
    ELSE [statistical |-> 40, pattern_based |-> 35, trend_adjusted |-> 25]

Weights(n_years) ==
    IF n_years >= 5
    THEN [statistical |-> 30, pattern_based |-> 35, trend_adjusted |-> 35]
    ELSE [statistical |-> 40, pattern_based |-> 35, trend_adjusted |-> 25]

\* datetime(2025, 1, 1)
reference_date == Ordinal(<<2025, 1, 1>>)

\* variant: 'High' starts only above 0.70
confidence_level_above(score) ==
    IF score >= 800000 THEN "Very High"
    ELSE IF score > 700000 THEN "High"
    ELSE IF score >= 500000 THEN "Moderate"
    ELSE IF score >= 350000 THEN "Low"
    ELSE "Very Low"

confidence_level(score) ==
    IF score >= 800000 THEN "Very High"
    ELSE IF score >= 650000 THEN "High"
    ELSE IF score >= 500000 THEN "Moderate"
    ELSE IF score >= 350000 THEN "Low"
    ELSE "Very Low"

generate_recommendations(predicted_date, confidence, uncertainty) ==
    <<[text |-> "begin_monitoring",
       from |-> strftime(predicted_date - (uncertainty + 14)),
       days_before |-> uncertainty + 14]>>
    \o (IF confidence >= 750000
        THEN <<[text |-> "High confidence prediction"],
               [text |-> "Consider advance logistics preparation"]>>
        ELSE IF confidence >= 550000
        THEN <<[text |-> "Moderate confidence"],
               [text |-> "Monitor weather conditions closely"]>>
        ELSE <<[text |-> "Low confidence"],
               [text |-> "Require real-time monitoring for confirmation"]>>)
    \o (IF uncertainty > 21 THEN <<[text |-> "High uncertainty"]>>
        ELSE IF uncertainty > 14 THEN <<[text |-> "Moderate uncertainty"]>>
        ELSE <<[text |-> "Low uncertainty"]>>)
    \o <<[text |-> "Validate prediction with ground observations"],
         [text |-> "Update prediction as season approaches"]>>

(***************************************************************************)
(* days_from_ref * weight and sum(predicted_days) are IEEE-754 doubles,    *)
(* and int() truncates their sum, so the rounding of the products and of   *)
(* the partial sums decides the day whenever the exact weighted sum is a   *)
(* whole number.  A non-negative double below 2048 whose unit in the last  *)
(* place is at least 2^-54 is held as the integer x / 2^-54, in four       *)
(* 20-bit limbs, least significant first.                                  *)
(***************************************************************************)
LimbBase == 2 ^ 20

\* the doubles nearest to 0.25, 0.30, 0.35 and 0.40, by weight in hundredths
WeightBits ==
    [w \in {25, 30, 35, 40} |->
        IF w = 25 THEN <<0, 0, 4096, 0>>
        ELSE IF w = 30 THEN <<209715, 209715, 4915, 0>>
        ELSE IF w = 35 THEN <<419430, 419430, 5734, 0>>
        ELSE <<629146, 629145, 6553, 0>>]

Carry(x) ==
    LET t2 == x[2] + x[1] \div LimbBase
        t3 == x[3] + t2 \div LimbBase
        t4 == x[4] + t3 \div LimbBase
    IN  <<x[1] % LimbBase, t2 % LimbBase, t3 % LimbBase, t4>>

RECURSIVE BitLen(_)
BitLen(n) == IF n = 0 THEN 0 ELSE 1 + BitLen(n \div 2)

LimbsBitLen(x) ==
    IF x[4] > 0 THEN 60 + BitLen(x[4])
    ELSE IF x[3] > 0 THEN 40 + BitLen(x[3])
    ELSE IF x[2] > 0 THEN 20 + BitLen(x[2])
    ELSE BitLen(x[1])

\* round to 53 significant bits, ties to even
Round53(x) ==
    LET s == LimbsBitLen(x) - 53
        unit == 2 ^ s
        r == x[1] % unit
        odd == (x[1] \div unit) % 2 = 1
        up == 2 * r > unit \/ (2 * r = unit /\ odd)
    IN  IF s <= 0 THEN x
        ELSE Carry(<<x[1] - r + (IF up THEN unit ELSE 0), x[2], x[3], x[4]>>)

\* days_from_ref * weight, 0 <= days < 2048
FloatProduct(days, w) ==
    LET b == WeightBits[w]
    IN  Round53(Carry(<<b[1] * days, b[2] * days, b[3] * days, b[4] * days>>))

FloatAdd(a, b) == Round53(Carry(<<a[1] + b[1], a[2] + b[2], a[3] + b[3], a[4] + b[4]>>))

RECURSIVE FloatSum(_)
FloatSum(s) ==
    IF s = <<>> THEN <<0, 0, 0, 0>>
    ELSE FloatAdd(FloatSum(SubSeq(s, 1, Len(s) - 1)), s[Len(s)])

\* int(x): 2^54 = 2^14 * 2^40
FloatInt(x) == x[4] * 64 + x[3] \div 16384

\* int(sum(predicted_days)), weights in hundredths; outside 0..2047 days the
\* sum is taken exactly
IntWeightedDays(days, ws) ==
    IF \A k \in DOMAIN days : days[k] >= 0 /\ days[k] < 2048
    THEN FloatInt(FloatSum([k \in DOMAIN days |-> FloatProduct(days[k], ws[k])]))
    ELSE Trunc(SeqSum([k \in DOMAIN days |-> days[k] * ws[k]]), 100)

ensemble_prediction(predictions, n_years) ==
    LET weights == Weights(n_years)
        used == SelectSeq(Methods,
                    LAMBDA m : "predicted_date" \in DOMAIN predictions[m])
        days_from_ref(m) == strptime(predictions[m].predicted_date) - reference_date
        int_avg_days ==
            IntWeightedDays([k \in DOMAIN used |-> days_from_ref(used[k])],
                            [k \in DOMAIN used |-> weights[used[k]]])
        avg_confidence == SeqSum([k \in DOMAIN used |->
                                     predictions[used[k]].confidence
                                         * weights[used[k]]])
        final_date == reference_date + int_avg_days
        all_dates == [k \in DOMAIN used |->
                         strptime(predictions[used[k]].predicted_date)]
        uncertainty ==
            IF Len(all_dates) > 1
            THEN IntStd([k \in DOMAIN all_dates |->
                            all_dates[k] - SeqMin(all_dates)]) + 7
            ELSE 14
    IN  [status |-> "success",
         predicted_date |-> strftime(final_date),
         confidence |-> avg_confidence,
         confidence_level |-> confidence_level(avg_confidence),
         uncertainty_days |-> uncertainty,
         date_range |-> [earliest |-> strftime(final_date - uncertainty),
                         most_likely |-> strftime(final_date),
                         latest |-> strftime(final_date + uncertainty)],
         prediction_methods |->
             [m \in {Methods[k] : k \in DOMAIN Methods} |->
                 [date |-> predictions[m].predicted_date,
                  confidence |-> predictions[m].confidence,
                  weight |-> weights[m]]],
         recommendations |->
             generate_recommendations(final_date, avg_confidence, uncertainty)]

(***************************************************************************)
(* BloomPredictor.predict_next_bloom                                       *)
(***************************************************************************)
\* variant: every event that carries a peak_date counts, parseable or not
EventPeaks_unparsed(events) ==
    LET usable == SelectSeq(events, LAMBDA e : "peak_date" \in DOMAIN e)
    IN  [k \in DOMAIN usable |->
            [date |-> strptime(usable[k].peak_date),
             ndvi |-> EventPeak(usable[k])]]

\* the (datetime, peak_ndvi) pairs of the events that carry a peak_date that
\* parses, in list order
EventPeaks(events) ==
    LET usable == SelectSeq(events,
                      LAMBDA e : "peak_date" \in DOMAIN e /\ Parses(e.peak_date))
    IN  [k \in DOMAIN usable |->
            [date |-> strptime(usable[k].peak_date),
             ndvi |-> EventPeak(usable[k])]]

RECURSIVE HistoryPeaks(_)
HistoryPeaks(history) ==
    IF history = <<>> THEN <<>>
    ELSE EventPeaks(Head(history).bloom_events) \o HistoryPeaks(Tail(history))

LastN(s, n) == IF Len(s) <= n THEN s ELSE SubSeq(s, Len(s) - n + 1, Len(s))

Location == [lat |-> 36, lon |-> -119]

\* whether a statement of the try block raises
PredictFault(historical, veg_type) ==
    Len(HistoryPeaks(historical)) >= 2 /\ vegetation_fault(veg_type)

\* The body of the try block: [fault, value].  today is what datetime.now()
\* gives when current_date is not passed
PredictBody(historical, location, veg_type, current_arg, today) ==
    LET current_text == IF current_arg # None THEN Get(current_arg) ELSE today
        current == strptime(current_text)
        peaks == HistoryPeaks(historical)
        bloom_dates == [k \in DOMAIN peaks |-> peaks[k].date]
        peak_ndvi_values == [k \in DOMAIN peaks |-> peaks[k].ndvi]
        predictions ==
            [statistical |->
                 statistical_prediction(bloom_dates, peak_ndvi_values, current),
             pattern_based |->
                 pattern_based_prediction(bloom_dates, peak_ndvi_values,
                                          current, veg_type),
             trend_adjusted |->
                 trend_adjusted_prediction(bloom_dates, peak_ndvi_values, current)]
        Insufficient == [status |-> "insufficient_data",
                         message |-> "insufficient",
                         confidence |-> 0]
    IN  IF Len(historical) = 0 THEN [fault |-> FALSE, value |-> Insufficient]
        ELSE IF Len(bloom_dates) < 2 THEN [fault |-> FALSE, value |-> Insufficient]
        ELSE IF PredictFault(historical, veg_type)
        THEN [fault |-> TRUE, value |-> <<>>]
        ELSE [fault |-> FALSE,
              value |-> ensemble_prediction(predictions, Len(historical))
                        @@ [based_on_years |-> Len(historical),
                            historical_bloom_dates |->
                                LastN([k \in DOMAIN bloom_dates |->
                                          strftime(bloom_dates[k])], 5),
                            current_date |-> current_text,
                            location |-> location]]

\* variant: no except clause, a fault escapes
predict_next_bloom_unguarded(historical, location, veg_type, current_arg, today) ==
    LET body == PredictBody(historical, location, veg_type, current_arg, today)
    IN  [raised |-> body.fault, value |-> body.value]

\* except Exception: status 'error', the message, confidence 0.0
predict_next_bloom(historical, location, veg_type, current_arg, today) ==
    LET body == PredictBody(historical, location, veg_type, current_arg, today)
    IN  IF body.fault
        THEN [raised |-> FALSE,
              value |-> [status |-> "error",
                         message |-> "exception",
                         confidence |-> 0]]
        ELSE [raised |-> FALSE, value |-> body.value]

(***************************************************************************)
(* Inputs of the predictor: one yearly analysis per consecutive year from  *)
(* 2020.  The years alternate between two menus: no event, an early spring *)
(* peak, or a spring and a summer peak; and an event without a date, an    *)
(* event whose date does not parse, or a late spring peak.                 *)
(***************************************************************************)
DatedEvent(date, peak) ==
    [type |-> "peak_bloom", peak_ndvi |-> peak, peak_date |-> date]

YearEvents(y) ==
    IF y % 2 = 0
    THEN {<<>>,
          <<DatedEvent(<<y, 4, 10>>, 60)>>,
          <<DatedEvent(<<y, 4, 15>>, 60), DatedEvent(<<y, 6, 20>>, 75)>>}
    ELSE {<<[type |-> "sustained_bloom", peak_ndvi |-> 60]>>,
          <<DatedEvent(<<y, 2, 30>>, 60)>>,
          <<DatedEvent(<<y, 4, 20>>, 52)>>}

YearAnalyses(k) ==
    {[year |-> 2020 + k - 1, bloom_events |-> evs] :
         evs \in YearEvents(2020 + k - 1)}

RECURSIVE Histories(_)
Histories(n) ==
    IF n = 0 THEN {<<>>}
    ELSE {Append(h, a) : h \in Histories(n - 1), a \in YearAnalyses(n)}

HistoryInputs == UNION {Histories(n) : n \in 0..MaxHistory}

Today == {<<2025, 2, 10>>, <<2025, 11, 5>>}

CurrentDateArgs == {None, Some(<<2025, 6, 1>>)}

\* no label, the two labels of the species identifier that shift the
\* pattern, and a species code passed in place of the label
VegetationTypes ==
    {None,
     Some([text |-> <<"desert", "wildflowers">>]),
     Some([text |-> <<"tree", "blossoms">>]),
     Some([number |-> 3])}

InitPredict ==
    /\ pc = "ready"
    /\ raised = FALSE
    /\ ndvi_data = AsSeries(<<>>)
    /\ evi_data = None
    /\ dates = None
    /\ threshold = None
    /\ bloom_events = <<>>
    /\ intensity = <<0, 1>>
    /\ timeseries_data = <<>>
    /\ trends = <<>>
    /\ historical_blooms \in HistoryInputs
    /\ vegetation_type \in VegetationTypes
    /\ current_date \in CurrentDateArgs
    /\ prediction = <<>>
    /\ IdleCalculator
    /\ IdleScanner
    /\ IdleInterpreter

PredictNextBloom ==
    \E today \in Today :
        LET r == predict_next_bloom(historical_blooms, Location,
                                    vegetation_type, current_date, today)
        IN  /\ pc = "ready"
            /\ pc' = "predicted"
            /\ prediction' = r.value
            /\ raised' = r.raised
            /\ UNCHANGED <<detector_vars, trend_vars, calculator_vars, scanner_vars,
                   interpreter_vars,
                           historical_blooms,
                           vegetation_type, current_date>>

NextPredict == PredictNextBloom

SpecPredict == InitPredict /\ [][NextPredict]_vars

(***************************************************************************)
(* A settled season: five consecutive years from 2020, each with one peak  *)
(* on April 10, 15 or 20, no vegetation type, and a current date in the    *)
(* year after the history or five years later.                             *)
(***************************************************************************)
SeasonYear(y) ==
    {[year |-> y, bloom_events |-> <<DatedEvent(<<y, 4, d>>, 60)>>] :
         d \in {10, 15, 20}}

SeasonHistories ==
    {<<a, b, c, d, e>> : a \in SeasonYear(2020), b \in SeasonYear(2021),
                         c \in SeasonYear(2022), d \in SeasonYear(2023),
                         e \in SeasonYear(2024)}

SeasonDates == {None, Some(<<2025, 6, 1>>), Some(<<2030, 2, 10>>)}

InitSeason ==
    /\ pc = "ready"
    /\ raised = FALSE
    /\ ndvi_data = AsSeries(<<>>)
    /\ evi_data = None
    /\ dates = None
    /\ threshold = None
    /\ bloom_events = <<>>
    /\ intensity = <<0, 1>>
    /\ timeseries_data = <<>>
    /\ trends = <<>>
    /\ historical_blooms \in SeasonHistories
    /\ vegetation_type = None
    /\ current_date \in SeasonDates
    /\ prediction = <<>>
    /\ IdleCalculator
    /\ IdleScanner
    /\ IdleInterpreter

SpecSeason == InitSeason /\ [][NextPredict]_vars

(***************************************************************************)
(* A season with two flushes: two or three years from 2022, each with one  *)
(* peak on May 2 or with an April and a June peak of which either is the   *)
(* stronger; no vegetation type or a tree label; asked in late April, in   *)
(* May or in July of 2025.                                                 *)
(***************************************************************************)
MixedYear(y) ==
    {[year |-> y, bloom_events |-> evs] :
         evs \in {<<DatedEvent(<<y, 5, 2>>, 60)>>,
                  <<DatedEvent(<<y, 4, 15>>, 60), DatedEvent(<<y, 6, 20>>, 75)>>,
                  <<DatedEvent(<<y, 4, 15>>, 75), DatedEvent(<<y, 6, 20>>, 60)>>}}

MixedDates == {Some(<<2025, 4, 30>>), Some(<<2025, 5, 10>>), Some(<<2025, 7, 1>>)}

InitMixed ==
    /\ pc = "ready"
    /\ raised = FALSE
    /\ ndvi_data = AsSeries(<<>>)
    /\ evi_data = None
    /\ dates = None
    /\ threshold = None
    /\ bloom_events = <<>>
    /\ intensity = <<0, 1>>
    /\ timeseries_data = <<>>
    /\ trends = <<>>
    /\ \E b \in MixedYear(2023), c \in MixedYear(2024) :
          \/ historical_blooms = <<b, c>>
          \/ \E a \in MixedYear(2022) : historical_blooms = <<a, b, c>>
    /\ vegetation_type \in {None, Some([text |-> <<"tree", "blossoms">>])}
    /\ current_date \in MixedDates
    /\ prediction = <<>>
    /\ IdleCalculator
    /\ IdleScanner
    /\ IdleInterpreter

SpecMixed == InitMixed /\ [][NextPredict]_vars

(***************************************************************************)
(* _trend_adjusted_prediction on its own: the peaks of 2021, 2022 and 2023, *)
(* one per year between April 10 and April 10 + MaxShift, the last year    *)
(* possibly without a peak; asked on 2025-06-01.                           *)
(***************************************************************************)
TimingYear(y) ==
    {[year |-> y, bloom_events |-> <<DatedEvent(<<y, 4, 10 + d>>, 60)>>] :
         d \in 0..MaxShift}

InitTiming ==
    /\ pc = "ready"
    /\ raised = FALSE
    /\ ndvi_data = AsSeries(<<>>)
    /\ evi_data = None
    /\ dates = None
    /\ threshold = None
    /\ bloom_events = <<>>
    /\ intensity = <<0, 1>>
    /\ timeseries_data = <<>>
    /\ trends = <<>>
    /\ \E a \in TimingYear(2021), b \in TimingYear(2022),
          c \in TimingYear(2023) \cup {[year |-> 2023, bloom_events |-> <<>>]} :
           historical_blooms = <<a, b, c>>
    /\ vegetation_type = None
    /\ current_date = Some(<<2025, 6, 1>>)
    /\ prediction = <<>>
    /\ IdleCalculator
    /\ IdleScanner
    /\ IdleInterpreter

\* predictions['trend_adjusted'] = self._trend_adjusted_prediction(
\*     bloom_dates, peak_ndvi_values, current_dt)
TrendAdjustedPrediction ==
    LET peaks == HistoryPeaks(historical_blooms)
    IN  /\ pc = "ready"
        /\ pc' = "trend_adjusted"
        /\ prediction' =
               trend_adjusted_prediction([k \in DOMAIN peaks |-> peaks[k].date],
                                         [k \in DOMAIN peaks |-> peaks[k].ndvi],
                                         strptime(Get(current_date)))
        /\ UNCHANGED <<raised, detector_vars, trend_vars, calculator_vars,
                       scanner_vars, interpreter_vars, historical_blooms,
                       vegetation_type, current_date>>

NextTiming == TrendAdjustedPrediction

SpecTiming == InitTiming /\ [][NextTiming]_vars

(***************************************************************************)
(* Inputs of the calculator: rasters of 1..MaxPixels pixels as one row or  *)
(* one column, the three bands aligned; payloads with a band missing; a    *)
(* pre-calculated NDVI series; and demo payloads.  Band values in eighths  *)
(* include 0 (no data) and negative reflectance, series values are in      *)
(* hundredths within [-1, 1].                                              *)
(***************************************************************************)
RedValues == {-2, 0, 2}
NirValues == {0, 2, 4, 8}
BlueValues == {0, 2}
NdviLevels == {-100, 0, 45, 90, 100}

Shapes(n) == {<<1, n>>, <<n, 1>>}

BandPayload(shape, red, nir, blue) ==
    [bands |-> [red |-> [shape |-> shape, vals |-> red],
                nir |-> [shape |-> shape, vals |-> nir],
                blue |-> [shape |-> shape, vals |-> blue]]]

Pixel(v) == [shape |-> <<1, 1>>, vals |-> <<v>>]

MissingBandPayloads ==
    {[bands |-> [red |-> Pixel(2)]],
     [bands |-> [nir |-> Pixel(4)]],
     [bands |-> [red |-> Pixel(2), nir |-> Pixel(4)]],
     [bands |-> [red |-> Pixel(-2), nir |-> Pixel(2)]]}

SeriesPayloads ==
    UNION {{[ndvi_data |-> [values |-> v],
             bands |-> [red |-> Pixel(2), nir |-> Pixel(4), blue |-> Pixel(0)]] :
                v \in [1..k -> NdviLevels]} : k \in 0..MaxPixels}

DemoPayloads ==
    {[demo_mode |-> TRUE]}
        \cup UNION {{[demo_mode |-> TRUE, ndvi_values |-> v] :
                        v \in [1..k -> NdviLevels]} : k \in 1..MaxPixels}

OtherPayloads == MissingBandPayloads \cup SeriesPayloads \cup DemoPayloads

InitIndices ==
    /\ pc = "ready"
    /\ raised = FALSE
    /\ ndvi_data = AsSeries(<<>>)
    /\ evi_data = None
    /\ dates = None
    /\ threshold = None
    /\ bloom_events = <<>>
    /\ intensity = <<0, 1>>
    /\ timeseries_data = <<>>
    /\ trends = <<>>
    /\ historical_blooms = <<>>
    /\ vegetation_type = None
    /\ current_date = None
    /\ prediction = <<>>
    /\ ndvi_index = EmptyArray
    /\ evi_index = EmptyArray
    /\ IdleScanner
    /\ IdleInterpreter
    /\ \/ \E k \in 1..MaxPixels :
             \E shape \in Shapes(k), red \in [1..k -> RedValues],
                nir \in [1..k -> NirValues], blue \in [1..k -> BlueValues] :
                 satellite_data = BandPayload(shape, red, nir, blue)
       \/ satellite_data \in OtherPayloads

\* ndvi_data = vi_calculator.calculate_ndvi(satellite_data)
CalculateNdvi ==
    /\ pc = "ready"
    /\ pc' = "ndvi"
    /\ ndvi_index' = calculate_ndvi(satellite_data)
    /\ UNCHANGED <<raised, detector_vars, trend_vars, predictor_vars,
                   scanner_vars,
                   interpreter_vars, satellite_data, evi_index>>

\* evi_data = vi_calculator.calculate_evi(satellite_data)
CalculateEvi ==
    /\ pc = "ndvi"
    /\ pc' = "indices"
    /\ evi_index' = calculate_evi(satellite_data)
    /\ UNCHANGED <<raised, detector_vars, trend_vars, predictor_vars,
                   scanner_vars,
                   interpreter_vars, satellite_data, ndvi_index>>

NextIndices == CalculateNdvi \/ CalculateEvi

SpecIndices == InitIndices /\ [][NextIndices]_vars

(***************************************************************************)
(* RegionalScanner.  Degrees are in eighths, which doubles hold exactly.   *)
(* A point is its index in grid_points.  A result is None or Some(dict).   *)
(***************************************************************************)
max_workers == 3
max_grid_points == 100

\* np.arange(lo, hi, step) for step > 0
Arange(lo, hi, step) ==
    LET n == IF hi > lo THEN (hi - lo + step - 1) \div step ELSE 0
    IN  [k \in 1..n |-> lo + (k - 1) * step]

\* [(lat, lon) for lat in lats for lon in lons]
GridPoints(bbox, grid_resolution) ==
    LET lons == Arange(bbox[1], bbox[3], grid_resolution)
        lats == Arange(bbox[2], bbox[4], grid_resolution)
    IN  [k \in 1..(Len(lats) * Len(lons)) |->
            <<lats[((k - 1) \div Len(lons)) + 1], lons[((k - 1) % Len(lons)) + 1]>>]

\* the array calculate_ndvi returned, as detect_blooms reads it (hundredths)
ToDetector(array) ==
    [ndim |-> Len(array.shape),
     shape |-> array.shape,
     vals |-> [k \in DOMAIN array.vals |->
                  (100 * array.vals[k].num) \div array.vals[k].den]]

\* max(bloom_events, key=lambda x: x.get('peak_ndvi', 0)): the first of the
\* largest
RECURSIVE MaxByPeak(_)
MaxByPeak(events) ==
    IF Len(events) = 1 THEN events[1]
    ELSE LET rest == MaxByPeak(Tail(events))
         IN  IF EventPeak(Head(events)) >= EventPeak(rest) THEN Head(events)
             ELSE rest

\* _summarize_data_source of a payload without nested sources
summarize_data_source(data) ==
    LET real_data == GetOr(data, "real_data", FALSE)
    IN  [real_data |-> real_data,
         demo_mode |-> GetOr(data, "demo_mode", FALSE) /\ ~real_data]

\* The body of _analyze_point's try block: [fault, value].  fetched is what
\* fetch_data does for the point: it raises, or returns data (None or a
\* payload).  peak_date None stands for 'unknown'.
AnalyzeBody(lat, lon, fetched) ==
    LET payload == Get(fetched.data)
        ndvi == calculate_ndvi(payload)
        dts == IF "ndvi_data" \in DOMAIN payload
                  /\ "dates" \in DOMAIN payload.ndvi_data
               THEN Some(payload.ndvi_data.dates) ELSE None
        events == detect_blooms(ToDetector(ndvi), None, None, dts).events
        peak_bloom == MaxByPeak(events)
    IN  IF fetched.raises THEN [fault |-> TRUE, value |-> None]
        ELSE IF fetched.data = None THEN [fault |-> FALSE, value |-> None]
        ELSE IF ndvi.shape[1] = 0 THEN [fault |-> FALSE, value |-> None]
        ELSE IF Len(events) = 0 THEN [fault |-> FALSE, value |-> None]
        ELSE [fault |-> FALSE,
              value |-> Some(
                  [lat |-> lat,
                   lon |-> lon,
                   has_bloom |-> TRUE,
                   bloom_count |-> Len(events),
                   peak_ndvi |-> EventPeak(peak_bloom),
                   peak_date |-> IF "peak_date" \in DOMAIN peak_bloom
                                 THEN Some(peak_bloom.peak_date) ELSE None,
                   intensity |-> calculate_intensity(ToDetector(ndvi).vals),
                   average_ndvi |-> <<SeqSum(ToDetector(ndvi).vals),
                                      Len(ndvi.vals)>>,
                   data_source |-> summarize_data_source(payload)])]

\* except Exception: return None
analyze_point(lat, lon, fetched) == AnalyzeBody(lat, lon, fetched).value

\* variant: only the first blooming result to complete is kept
Collect_first(results, result) ==
    IF result # None /\ Get(result).has_bloom /\ results = <<>>
    THEN <<Get(result)>>
    ELSE results

\* variant: only the latest blooming result is kept
Collect_latest(results, result) ==
    IF result # None /\ Get(result).has_bloom THEN <<Get(result)>> ELSE results

\* if result and result.get('has_bloom'): bloom_results.append(result)
Collect(results, result) ==
    IF result # None /\ Get(result).has_bloom
    THEN Append(results, Get(result))
    ELSE results

\* sorted(bloom_results, key=lambda x: x['peak_ndvi'], reverse=True): stable
RECURSIVE SortByPeak(_)
SortByPeak(results) ==
    IF results = <<>> THEN <<>>
    ELSE LET n == Len(results)
             sorted == SortByPeak(SubSeq(results, 1, n - 1))
             ahead == Len(SelectSeq(sorted,
                          LAMBDA r : r.peak_ndvi >= results[n].peak_ndvi))
         IN  SubSeq(sorted, 1, ahead) \o <<results[n]>>
                 \o SubSeq(sorted, ahead + 1, Len(sorted))

describe_coverage(bloom_count) ==
    IF bloom_count > 50 THEN "Extensive bloom"
    ELSE IF bloom_count > 20 THEN "Significant bloom"
    ELSE IF bloom_count > 10 THEN "Moderate bloom"
    ELSE IF bloom_count > 5 THEN "Limited bloom"
    ELSE "Sparse bloom"

\* _interpret_regional_blooms, from the sum, the sum of squares and the
\* largest of the peaks in hundredths
interpret_regional_blooms(peaks) ==
    LET n == Len(peaks)
        total == SeqSum(peaks)
        n2_variance == n * SeqSum([k \in DOMAIN peaks |-> peaks[k] * peaks[k]])
                           - total * total
        assessment ==
            IF total > 60 * n /\ n > 20
            THEN <<"Exceptional regional bloom event", "Very strong">>
            ELSE IF total > 50 * n /\ n > 10
            THEN <<"Strong regional bloom", "Strong">>
            ELSE IF total > 40 * n /\ n > 5
            THEN <<"Moderate regional bloom", "Moderate">>
            ELSE <<"Weak or patchy bloom", "Limited">>
    IN  [overall_assessment |-> assessment[1],
         bloom_quality |-> assessment[2],
         spatial_pattern |->
             IF n2_variance < 100 * n * n THEN "Uniform"
             ELSE IF n2_variance < 225 * n * n THEN "Moderate variation"
             ELSE "High variation",
         recommendations |->
             (IF n > 15 THEN <<"Consider regional visitor management",
                               "Multiple viewing locations available">>
              ELSE <<>>)
             \o (IF SeqMax(peaks) > 70
                 THEN <<"Exceptional displays at hotspot locations",
                        "Priority monitoring of top locations">>
                 ELSE <<>>)
             \o (IF total > 50 * n
                 THEN <<"Good conditions for ecological surveys",
                        "Excellent pollinator habitat currently">>
                 ELSE <<>>)]

\* _aggregate_results: [fault, value]; the coverage percentage divides by the
\* number of quarter-degree cells of the box
aggregate_results(results, bbox) ==
    LET peak_ndvis == [k \in DOMAIN results |-> results[k].peak_ndvi]
        intensities == {results[k].intensity : k \in DOMAIN results}
        sixteen_cells == (bbox[3] - bbox[1]) * (bbox[4] - bbox[2]) * 4
        sources == [k \in DOMAIN results |-> results[k].data_source]
    IN  IF Len(results) = 0
        THEN [fault |-> FALSE,
              value |-> [status |-> "success",
                         bloom_detected |-> FALSE,
                         message |-> "No significant blooms detected in this region",
                         bbox |-> bbox]]
        ELSE IF sixteen_cells = 0 THEN [fault |-> TRUE, value |-> <<>>]
        ELSE [fault |-> FALSE,
              value |->
                 [status |-> "success",
                  bloom_detected |-> TRUE,
                  bbox |-> bbox,
                  statistics |->
                      [total_bloom_locations |-> Len(results),
                       average_peak_ndvi |-> <<SeqSum(peak_ndvis), Len(results)>>,
                       max_peak_ndvi |-> SeqMax(peak_ndvis),
                       min_peak_ndvi |-> SeqMin(peak_ndvis)],
                  intensity_distribution |->
                      [i \in intensities |->
                          Len(SelectSeq(results, LAMBDA r : r.intensity = i))],
                  hotspots |-> SubSeq(SortByPeak(results), 1,
                                      Min2(10, Len(results))),
                  bloom_coverage |->
                      [percentage |-> <<Len(results) * 100 * 16, sixteen_cells>>,
                       description |-> describe_coverage(Len(results))],
                  all_bloom_locations |-> results,
                  data_sources |->
                      [total_points |-> Len(sources),
                       real_data_points |->
                           Len(SelectSeq(sources, LAMBDA d : d.real_data)),
                       demo_data_points |->
                           Len(SelectSeq(sources, LAMBDA d : d.demo_mode))],
                  interpretation |-> interpret_regional_blooms(peak_ndvis)]]

\* scan_region's return after the loop; except Exception: status 'error'
scan_summary(results, bbox) ==
    LET body == aggregate_results(results, bbox)
    IN  IF body.fault THEN [status |-> "error", message |-> "exception"]
        ELSE body.value

(***************************************************************************)
(* Inputs of the scanner: boxes of 0..MaxPoints grid points (and one of    *)
(* more than 100), and for each point what fetch_data does: it raises,     *)
(* returns None, or returns a series with a strong peak, with a moderate   *)
(* peak, or with none.                                                     *)
(***************************************************************************)
FetchOutcomes ==
    {[raises |-> TRUE, data |-> None],
     [raises |-> FALSE, data |-> None],
     [raises |-> FALSE,
      data |-> Some([ndvi_data |-> [values |-> ExampleSeries,
                                    dates |-> DateList(6)]])],
     [raises |-> FALSE,
      data |-> Some([ndvi_data |-> [values |-> <<20, 60, 20>>]])],
     [raises |-> FALSE,
      data |-> Some([ndvi_data |-> [values |-> <<20, 30, 20>>]])]}

NumPoints(request) == Len(GridPoints(request.bbox, request.grid_resolution))

RegionTooLarge == [bbox |-> <<-8, 16, 80, 32>>, grid_resolution |-> 1]

ScanRequests ==
    {r \in {[bbox |-> <<-8, 16, -8 + 2 * w, 18>>, grid_resolution |-> 2] :
                w \in 0..(MaxPoints + 1)}
           \cup {[bbox |-> <<-8, 16, -4, 20>>, grid_resolution |-> 4],
                 \* an eighth of a degree square at the default resolution
                 [bbox |-> <<-8, 16, -7, 17>>, grid_resolution |-> 2],
                 \* a quarter by an eighth of a degree, at an eighth
                 [bbox |-> <<-8, 16, -6, 17>>, grid_resolution |-> 1]} :
        NumPoints(r) <= MaxPoints}

InitScan ==
    /\ pc = "ready"
    /\ raised = FALSE
    /\ ndvi_data = AsSeries(<<>>)
    /\ evi_data = None
    /\ dates = None
    /\ threshold = None
    /\ bloom_events = <<>>
    /\ intensity = <<0, 1>>
    /\ timeseries_data = <<>>
    /\ trends = <<>>
    /\ historical_blooms = <<>>
    /\ vegetation_type = None
    /\ current_date = None
    /\ prediction = <<>>
    /\ IdleCalculator
    /\ IdleInterpreter
    /\ \/ /\ scan_request \in ScanRequests
          /\ fetch_outcomes \in [1..NumPoints(scan_request) -> FetchOutcomes]
       \/ /\ scan_request = RegionTooLarge
          /\ fetch_outcomes = <<>>
    /\ grid_points = <<>>
    /\ submitted = 0
    /\ work_queue = <<>>
    /\ running = {}
    /\ future_results = <<>>
    /\ yielded = {}
    /\ bloom_results = <<>>
    /\ analyzed_count = 0
    /\ regional_summary = <<>>

other_vars == <<raised, detector_vars, trend_vars, predictor_vars, calculator_vars,
                interpreter_vars>>

\* scan_region up to the executor: the grid and the size check
StartScan ==
    LET points == GridPoints(scan_request.bbox, scan_request.grid_resolution)
    IN  /\ pc = "ready"
        /\ grid_points' = points
        /\ IF Len(points) > max_grid_points
           THEN /\ pc' = "scanned"
                /\ regional_summary' = [status |-> "error",
                                        message |-> "Region too large",
                                        recommendation |-> "Try grid_resolution >= 0.5"]
           ELSE /\ pc' = IF Len(points) = 0 THEN "collecting" ELSE "submitting"
                /\ UNCHANGED regional_summary
        /\ UNCHANGED <<other_vars, scan_request, fetch_outcomes, submitted,
                       work_queue, running, future_results, yielded,
                       bloom_results, analyzed_count>>

\* executor.submit(self._analyze_point, lat, lon, ...) for the next point
SubmitPoint ==
    /\ pc = "submitting"
    /\ submitted' = submitted + 1
    /\ work_queue' = Append(work_queue, submitted + 1)
    /\ pc' = IF submitted + 1 = Len(grid_points) THEN "collecting" ELSE "submitting"
    /\ UNCHANGED <<other_vars, scan_request, fetch_outcomes, grid_points, running,
                   future_results, yielded, bloom_results, analyzed_count,
                   regional_summary>>

\* a free worker thread takes the oldest queued point
WorkerStart ==
    /\ pc \in {"submitting", "collecting"}
    /\ work_queue # <<>>
    /\ Cardinality(running) < max_workers
    /\ running' = running \cup {Head(work_queue)}
    /\ work_queue' = Tail(work_queue)
    /\ UNCHANGED <<pc, other_vars, scan_request, fetch_outcomes, grid_points,
                   submitted, future_results, yielded, bloom_results,
                   analyzed_count, regional_summary>>

\* a worker thread returns from _analyze_point and its future is done
WorkerFinish ==
    \E p \in running :
        /\ pc \in {"submitting", "collecting"}
        /\ running' = running \ {p}
        /\ future_results' =
               future_results
                   @@ (p :> analyze_point(grid_points[p][1], grid_points[p][2],
                                          fetch_outcomes[p]))
        /\ UNCHANGED <<pc, other_vars, scan_request, fetch_outcomes, grid_points,
                       submitted, work_queue, yielded, bloom_results,
                       analyzed_count, regional_summary>>

\* one turn of the as_completed loop, for a finished future not yet handed out
CollectResult ==
    \E p \in (DOMAIN future_results) \ yielded :
        /\ pc = "collecting"
        /\ yielded' = yielded \cup {p}
        /\ analyzed_count' = analyzed_count + 1
        /\ bloom_results' = Collect(bloom_results, future_results[p])
        /\ UNCHANGED <<pc, other_vars, scan_request, fetch_outcomes, grid_points,
                       submitted, work_queue, running, future_results,
                       regional_summary>>

\* the loop is exhausted: _aggregate_results and return
FinishScan ==
    /\ pc = "collecting"
    /\ yielded = DOMAIN grid_points
    /\ pc' = "scanned"
    /\ regional_summary' = scan_summary(bloom_results, scan_request.bbox)
    /\ UNCHANGED <<other_vars, scan_request, fetch_outcomes, grid_points,
                   submitted, work_queue, running, future_results, yielded,
                   bloom_results, analyzed_count>>

NextScan ==
    \/ StartScan
    \/ SubmitPoint
    \/ WorkerStart
    \/ WorkerFinish
    \/ CollectResult
    \/ FinishScan

SpecScan == InitScan /\ [][NextScan]_vars

(***************************************************************************)
(* Vocabulary of the detector's properties                                 *)
(***************************************************************************)
Returned == pc = "detected"

IsSeries == ndvi_data.ndim = 1

Series == ndvi_data.vals

\* the threshold in force for the call
CallThreshold == IF threshold # None THEN Get(threshold) ELSE bloom_threshold

EventsOfType(t) == {k \in DOMAIN bloom_events : bloom_events[k].type = t}

\* A flat top l..r (0-based) strictly above both neighbours, inside the series
IsFlatTop(x, l, r) ==
    /\ 1 <= l /\ l <= r /\ r <= Len(x) - 2
    /\ At(x, l - 1) < At(x, l)
    /\ At(x, r + 1) < At(x, l)
    /\ \A k \in l..r : At(x, k) = At(x, l)

InteriorMaxima(x) ==
    UNION {{(l + r) \div 2 : r \in {q \in l..(Len(x) - 2) : IsFlatTop(x, l, q)}} :
              l \in 1..(Len(x) - 2)}

SetMin(S) == CHOOSE m \in S : \A v \in S : m <= v
SetMax(S) == CHOOSE m \in S : \A v \in S : m >= v

\* prominence: height above the higher of the two lowest points reached
\* before the series rises above the peak (or ends), on either side
Prominence(x, p) ==
    LET higherLeft == {k \in 0..(p - 1) : At(x, k) > At(x, p)}
        higherRight == {k \in (p + 1)..(Len(x) - 1) : At(x, k) > At(x, p)}
        lo == IF higherLeft = {} THEN 0 ELSE SetMax(higherLeft) + 1
        hi == IF higherRight = {} THEN Len(x) - 1 ELSE SetMin(higherRight) - 1
        leftBase == SetMin({At(x, k) : k \in lo..p})
        rightBase == SetMin({At(x, k) : k \in p..hi})
    IN  At(x, p) - Max2(leftBase, rightBase)

QualifyingPeaks(x, thr) ==
    {p \in InteriorMaxima(x) : At(x, p) >= thr /\ Prominence(x, p) >= 10}

RECURSIVE SetSum(_, _)
SetSum(x, S) ==
    IF S = {} THEN 0
    ELSE LET k == CHOOSE k \in S : TRUE IN x[k] + SetSum(x, S \ {k})

\* C1: detect_blooms never propagates an exception: it always returns a list,
\* a zero-length series returns the empty list, and whenever a statement of
\* the try block raises the call returns the empty list.
C1_NeverPropagates ==
    Returned =>
        /\ raised = FALSE
        /\ DOMAIN bloom_events = 1..Len(bloom_events)
        /\ ((IsSeries /\ Len(Series) = 0) => bloom_events = <<>>)
        /\ (bloom_events = <<>>
                \/ ~DetectBody(ndvi_data, evi_data, threshold, dates).fault)

\* a 2-D raster of two rows went through detection and came back empty
C1_Witness ==
    /\ pc = "detected"
    /\ ndvi_data.ndim = 2
    /\ ArrayLen(ndvi_data) = 2
    /\ DetectBody(ndvi_data, evi_data, threshold, dates).fault
    /\ bloom_events = <<>>

\* C2: a series of at least 2 values with at least one qualifying peak yields
\* exactly one peak_bloom event per qualifying peak and nothing else, in
\* strictly increasing peak_index order (peaks at least 2 apart); the example
\* series at threshold 0.4 yields one event, peak_index 3, peak 0.75,
\* confidence 0.95.
C2_OneEventPerPeak ==
    (Returned /\ IsSeries /\ Len(Series) >= 2) =>
        LET Q == QualifyingPeaks(Series, CallThreshold)
        IN  /\ Q # {} =>
                /\ Len(bloom_events) = Cardinality(Q)
                /\ \A k \in DOMAIN bloom_events :
                      /\ bloom_events[k].type = "peak_bloom"
                      /\ bloom_events[k].peak_index \in Q
                /\ \A k \in 1..(Len(bloom_events) - 1) :
                      bloom_events[k + 1].peak_index
                          >= bloom_events[k].peak_index + 2
            /\ (Series = ExampleSeries /\ threshold = None) =>
                /\ Len(bloom_events) = 1
                /\ bloom_events[1].type = "peak_bloom"
                /\ bloom_events[1].peak_index = 3
                /\ bloom_events[1].peak_ndvi = 75
                /\ bloom_events[1].confidence = 95

\* two qualifying peaks, two events
C2_Witness ==
    /\ pc = "detected"
    /\ IsSeries
    /\ Cardinality(QualifyingPeaks(Series, CallThreshold)) = 2
    /\ Len(bloom_events) = 2
    /\ bloom_events[1].peak_index < bloom_events[2].peak_index

\* C3: a series of at least 2 values with no qualifying peak yields one
\* sustained_bloom event when at least 2 observations are >= threshold
\* (duration = their count, peak = their maximum, mean = their mean,
\* confidence 0.7) and the empty list otherwise.
C3_SustainedBloom ==
    (Returned /\ IsSeries /\ Len(Series) >= 2
        /\ QualifyingPeaks(Series, CallThreshold) = {}) =>
        LET high == {k \in DOMAIN Series : Series[k] >= CallThreshold}
        IN  IF Cardinality(high) >= 2
            THEN /\ Len(bloom_events) = 1
                 /\ bloom_events[1].type = "sustained_bloom"
                 /\ bloom_events[1].duration_observations = Cardinality(high)
                 /\ bloom_events[1].peak_ndvi = SetMax({Series[k] : k \in high})
                 /\ bloom_events[1].mean_ndvi[1] * Cardinality(high)
                        = SetSum(Series, high) * bloom_events[1].mean_ndvi[2]
                 /\ bloom_events[1].confidence = 70
            ELSE bloom_events = <<>>

\* a sustained bloom whose mask left some observation out
C3_Witness ==
    /\ pc = "detected"
    /\ IsSeries
    /\ Len(bloom_events) = 1
    /\ bloom_events[1].type = "sustained_bloom"
    /\ bloom_events[1].duration_observations >= 2
    /\ bloom_events[1].duration_observations < Len(Series)

\* the value a single_observation or peak_bloom event was scored on
ScoredValue(e) == IF e.type = "single_observation" THEN e.ndvi ELSE e.peak_ndvi

\* C4: with the construction-time threshold 0.4, the confidence of a
\* single_observation or peak_bloom event is the step function of its value:
\* < 0.4 -> 0, [0.4, 0.5) -> 0.5, [0.5, 0.6) -> 0.7, [0.6, 0.7) -> 0.85,
\* >= 0.7 -> 0.95, each breakpoint in the higher step; [0.8] gives one
\* single_observation event with confidence 0.95.
C4_ConfidenceSteps ==
    Returned =>
        /\ \A k \in EventsOfType("single_observation") \cup EventsOfType("peak_bloom") :
              LET v == ScoredValue(bloom_events[k])
                  c == bloom_events[k].confidence
              IN  /\ v < 40 => c = 0
                  /\ (40 <= v /\ v < 50) => c = 50
                  /\ (50 <= v /\ v < 60) => c = 70
                  /\ (60 <= v /\ v < 70) => c = 85
                  /\ v >= 70 => c = 95
        /\ (IsSeries /\ Series = ExampleSingle) =>
              /\ Len(bloom_events) = 1
              /\ bloom_events[1].type = "single_observation"
              /\ bloom_events[1].confidence = 95

\* events scored on the breakpoints 0.4 and 0.6
C4_Witness ==
    /\ pc = "detected"
    /\ Len(bloom_events) = 2
    /\ bloom_events[1].type = "peak_bloom"
    /\ bloom_events[1].peak_ndvi = 40 /\ bloom_events[1].confidence = 50
    /\ bloom_events[2].peak_ndvi = 60 /\ bloom_events[2].confidence = 85

\* C5: a threshold passed to detect_blooms is in force for the whole call,
\* the lowest breakpoint of the confidence curve included, so every emitted
\* single_observation or peak_bloom event has confidence >= 0.5.
C5_PassedThresholdScores ==
    Returned =>
        \A k \in EventsOfType("single_observation") \cup EventsOfType("peak_bloom") :
            /\ ScoredValue(bloom_events[k]) >= CallThreshold
            /\ bloom_events[k].confidence >= 50

\* C6: every peak_bloom event has 0 <= start <= peak <= end <= n-1,
\* duration = end - start + 1 >= 1, and start, peak and end values equal to
\* the series at those indices.
C6_EventBounds ==
    (Returned /\ IsSeries) =>
        \A k \in EventsOfType("peak_bloom") :
            LET e == bloom_events[k]
            IN  /\ 0 <= e.start_index
                /\ e.start_index <= e.peak_index
                /\ e.peak_index <= e.end_index
                /\ e.end_index <= Len(Series) - 1
                /\ e.duration_observations = e.end_index - e.start_index + 1
                /\ e.duration_observations >= 1
                /\ e.start_ndvi = At(Series, e.start_index)
                /\ e.peak_ndvi = At(Series, e.peak_index)
                /\ e.end_ndvi = At(Series, e.end_index)

\* an event that starts after the first observation, rises to its peak and
\* ends after it
C6_Witness ==
    /\ pc = "detected"
    /\ \E k \in EventsOfType("peak_bloom") :
          /\ bloom_events[k].start_index > 0
          /\ bloom_events[k].start_index < bloom_events[k].peak_index
          /\ bloom_events[k].end_index > bloom_events[k].peak_index

\* the peak index value of an event of any kind
PeakValue(e) == IF e.type = "single_observation" THEN e.ndvi ELSE e.peak_ndvi

\* C7: calculate_bloom_intensity of the events detect_blooms returned is
\* clip((m - 0.4) / 0.6, 0, 1), m the mean of the events' peak values, and 0
\* for the empty list.
C7_IntensityOfPeaks ==
    pc = "scored" =>
        IF Len(bloom_events) = 0 THEN intensity[1] = 0
        ELSE LET n == Len(bloom_events)
                 total == SeqSum([k \in DOMAIN bloom_events |->
                                     PeakValue(bloom_events[k])])
                 want == Clip01(<<total - 40 * n, 60 * n>>)
             IN  intensity[1] * want[2] = want[1] * intensity[2]

(***************************************************************************)
(* Properties of analyze_trends                                            *)
(***************************************************************************)
HasKey(d, key) == key \in DOMAIN d

DistinctYears ==
    \A i, j \in DOMAIN timeseries_data :
        i # j => timeseries_data[i].year # timeseries_data[j].year

\* C8: analyze_trends given exactly one yearly summary does not raise and
\* returns a result with a status field reporting no data / insufficient data.
C8_SingleYearStatus ==
    (pc = "analyzed" /\ Len(timeseries_data) = 1) =>
        /\ raised = FALSE
        /\ HasKey(trends, "status")
        /\ trends.status \in {"no_data", "insufficient_data"}

\* C9: analyze_trends given 2 or more yearly summaries with distinct years
\* returns the peak-value trend (direction 'increasing' iff slope > 0), the
\* mean-value trend, the bloom-event-count mean/min/max and one year-over-year
\* entry per consecutive pair with percent_change =
\* (peak_i - peak_{i-1}) / peak_{i-1} * 100, peak values of 0 included.
C9_TrendsReported ==
    (pc = "analyzed" /\ Len(timeseries_data) >= 2 /\ DistinctYears) =>
        /\ HasKey(trends, "peak_ndvi_trend")
        /\ trends.peak_ndvi_trend.direction = "increasing"
               <=> trends.peak_ndvi_trend.slope[1] > 0
        /\ HasKey(trends, "average_ndvi_trend")
        /\ HasKey(trends, "bloom_frequency")
        /\ HasKey(trends, "year_over_year_changes")
        /\ Len(trends.year_over_year_changes) = Len(timeseries_data) - 1
        /\ \A i \in 1..(Len(timeseries_data) - 1) :
              LET c == trends.year_over_year_changes[i]
                  prev == timeseries_data[i].peak_ndvi
                  cur == timeseries_data[i + 1].peak_ndvi
              IN  /\ c.from_year = timeseries_data[i].year
                  /\ c.to_year = timeseries_data[i + 1].year
                  /\ c.percent_change[1] * prev
                         = 100 * (cur - prev) * c.percent_change[2]

(***************************************************************************)
(* Properties of predict_next_bloom                                        *)
(***************************************************************************)
\* the events of all supplied years that carry a peak_date that parses
UsablePeakCount ==
    Cardinality({<<i, j>> \in (DOMAIN historical_blooms) \X (1..2) :
        /\ j \in DOMAIN historical_blooms[i].bloom_events
        /\ "peak_date" \in DOMAIN historical_blooms[i].bloom_events[j]
        /\ Parses(historical_blooms[i].bloom_events[j].peak_date)})

\* C10: predict_next_bloom returns status 'insufficient_data' with confidence
\* 0.0 and no predicted_date whenever fewer than 2 (peak_date, peak_value)
\* pairs with a parseable peak_date exist in the history, and never returns
\* 'insufficient_data' when 2 or more exist.
C10_InsufficientData ==
    pc = "predicted" =>
        IF UsablePeakCount < 2
        THEN /\ prediction.status = "insufficient_data"
             /\ prediction.confidence = 0
             /\ ~HasKey(prediction, "predicted_date")
        ELSE prediction.status # "insufficient_data"

\* a history of several years whose dates are missing or do not parse, but
\* for one
C10_Witness ==
    /\ pc = "predicted"
    /\ Len(historical_blooms) >= 3
    /\ UsablePeakCount = 1
    /\ \E i \in DOMAIN historical_blooms :
          /\ Len(historical_blooms[i].bloom_events) = 1
          /\ HasKey(historical_blooms[i].bloom_events[1], "peak_date")
          /\ ~Parses(historical_blooms[i].bloom_events[1].peak_date)
    /\ prediction.status = "insufficient_data"

\* C11: predict_next_bloom never propagates an exception: every call returns
\* a record with a status in {success, insufficient_data, error} and a
\* confidence, and whenever a statement of the try block raises the result
\* is status 'error' with confidence 0.0 and a message.
C11_PredictNeverPropagates ==
    pc = "predicted" =>
        /\ raised = FALSE
        /\ HasKey(prediction, "status")
        /\ prediction.status \in {"success", "insufficient_data", "error"}
        /\ HasKey(prediction, "confidence")
        /\ PredictFault(historical_blooms, vegetation_type) =>
              /\ prediction.status = "error"
              /\ prediction.confidence = 0
              /\ HasKey(prediction, "message")

\* the pattern-based method raised on a vegetation_type that is not a string
C11_Witness ==
    /\ pc = "predicted"
    /\ UsablePeakCount >= 2
    /\ vegetation_fault(vegetation_type)
    /\ prediction.status = "error"
    /\ prediction.confidence = 0

Succeeded == pc = "predicted" /\ prediction.status = "success"

\* C12: the weights reported per method are statistical 0.40, pattern_based
\* 0.35, trend_adjusted 0.25 when fewer than 5 years of history are supplied
\* and 0.30, 0.35, 0.35 when 5 or more are; either way they sum to 1.
C12_ReportedWeights ==
    Succeeded =>
        LET m == prediction.prediction_methods
        IN  /\ DOMAIN m = {"statistical", "pattern_based", "trend_adjusted"}
            /\ Len(historical_blooms) < 5 =>
                  /\ m.statistical.weight = 40
                  /\ m.pattern_based.weight = 35
                  /\ m.trend_adjusted.weight = 25
            /\ Len(historical_blooms) >= 5 =>
                  /\ m.statistical.weight = 30
                  /\ m.pattern_based.weight = 35
                  /\ m.trend_adjusted.weight = 35
            /\ m.statistical.weight + m.pattern_based.weight
                   + m.trend_adjusted.weight = 100

\* five supplied years, of which only two carry a dated peak, already
\* reweight the ensemble
C12_Witness ==
    /\ Succeeded
    /\ Len(historical_blooms) = 5
    /\ UsablePeakCount = 2
    /\ prediction.prediction_methods.trend_adjusted.weight = 35
    /\ prediction.prediction_methods.statistical.weight = 30

\* the sub-predicted dates, as days, in the order of Methods
SubDates ==
    [k \in DOMAIN Methods |->
        strptime(prediction.prediction_methods[Methods[k]].date)]

SubConfidences ==
    [k \in DOMAIN Methods |-> prediction.prediction_methods[Methods[k]].confidence]

SubWeights ==
    [k \in DOMAIN Methods |-> prediction.prediction_methods[Methods[k]].weight]

\* C13: the ensemble predicted_date is the reference date plus the truncated
\* weighted sum of the sub-predictions' day offsets and the ensemble
\* confidence is the weighted sum of their confidences; so predicted_date is
\* never earlier than the earliest nor later than the latest sub-predicted
\* date, and confidence lies between the smallest and largest sub-confidence.
C13_EnsembleWithinRange ==
    Succeeded =>
        LET predicted == strptime(prediction.predicted_date)
        IN  /\ predicted = reference_date
                   + Trunc(SeqSum([k \in DOMAIN Methods |->
                               (SubDates[k] - reference_date) * SubWeights[k]]), 100)
            /\ prediction.confidence
                   = SeqSum([k \in DOMAIN Methods |->
                                SubConfidences[k] * SubWeights[k]])
            /\ SeqMin(SubDates) <= predicted
            /\ predicted <= SeqMax(SubDates)
            /\ 100 * SeqMin(SubConfidences) <= prediction.confidence
            /\ prediction.confidence <= 100 * SeqMax(SubConfidences)

\* C14: on every success result uncertainty_days is the integer part of the
\* standard deviation of the sub-predicted dates' day differences from the
\* earliest of them, plus 7 (so at least 7), and date_range.earliest and
\* date_range.latest are predicted_date minus and plus uncertainty_days.
C14_UncertaintyAndRange ==
    Succeeded =>
        LET diffs == [k \in DOMAIN SubDates |-> SubDates[k] - SeqMin(SubDates)]
            \* 9 times the variance of the three differences
            v9 == 3 * SeqSum([k \in DOMAIN diffs |-> diffs[k] * diffs[k]])
                      - SeqSum(diffs) * SeqSum(diffs)
            u == prediction.uncertainty_days - 7
            predicted == strptime(prediction.predicted_date)
        IN  /\ u >= 0
            /\ 9 * u * u <= v9
            /\ v9 < 9 * (u + 1) * (u + 1)
            /\ strptime(prediction.date_range.earliest)
                   = predicted - prediction.uncertainty_days
            /\ strptime(prediction.date_range.latest)
                   = predicted + prediction.uncertainty_days
            /\ strptime(prediction.date_range.earliest) <= predicted
            /\ predicted <= strptime(prediction.date_range.latest)

\* sub-predictions far enough apart to add to the 7-day pad
C14_Witness ==
    /\ Succeeded
    /\ prediction.uncertainty_days > 7
    /\ SeqMax(SubDates) - SeqMin(SubDates) >= 3

\* April 15 of the target year: the year of the current date when its month
\* is before April, the next year otherwise
TargetApril15 ==
    LET cur == prediction.current_date
    IN  Ordinal(<<IF cur[2] < 4 THEN cur[1] ELSE cur[1] + 1, 4, 15>>)

\* days between the ensemble's predicted_date and April 15 of the target year
SeasonOffset == strptime(prediction.predicted_date) - TargetApril15

\* every supplied year holds one event, with a peak within 5 days of April 15
SettledSeason ==
    /\ Len(historical_blooms) = 5
    /\ vegetation_type = None
    /\ \A i \in DOMAIN historical_blooms :
          /\ historical_blooms[i].year = historical_blooms[1].year + i - 1
          /\ Len(historical_blooms[i].bloom_events) = 1
          /\ HasKey(historical_blooms[i].bloom_events[1], "peak_date")
          /\ LET date == historical_blooms[i].bloom_events[1].peak_date
             IN  /\ Parses(date)
                 /\ Abs(Ordinal(date)
                        - Ordinal(<<historical_blooms[i].year, 4, 15>>)) <= 5

\* the current date lies in the year after the last supplied year
FollowingYear ==
    prediction.current_date[1] = historical_blooms[Len(historical_blooms)].year + 1

DemoMode == "demo_mode" \in DOMAIN satellite_data /\ satellite_data.demo_mode

HasSeries ==
    /\ "ndvi_data" \in DOMAIN satellite_data
    /\ satellite_data.ndvi_data.values # <<>>

BandsGiven(names) ==
    "bands" \in DOMAIN satellite_data /\ names \subseteq DOMAIN satellite_data.bands

NdviReturned == pc \in {"ndvi", "indices"}

\* an element is a finite number in [-1, 1]
InUnitRange(v) == v.kind = "finite" /\ v.den > 0 /\ -v.den <= v.num /\ v.num <= v.den

\* C16: for any aligned red and NIR band arrays, every element of the NDVI
\* computed from them is in [-1, 1] and is never NaN or infinite: it is 0
\* where NIR + Red = 0 and clip((NIR - Red) / (NIR + Red), -1, 1) elsewhere,
\* and the output has the shape of the input bands (all-zero bands give all
\* zeros).
C16_NdviFromBands ==
    NdviReturned /\ ~DemoMode /\ ~HasSeries /\ BandsGiven({"red", "nir"}) =>
        LET red == satellite_data.bands.red
            nir == satellite_data.bands.nir
        IN  /\ ndvi_index.shape = nir.shape
            /\ DOMAIN ndvi_index.vals = DOMAIN nir.vals
            /\ \A k \in DOMAIN nir.vals :
                  LET v == ndvi_index.vals[k]
                      a == nir.vals[k] - red.vals[k]
                      b == nir.vals[k] + red.vals[k]
                  IN  /\ InUnitRange(v)
                      /\ b = 0 => v.num = 0
                      /\ b # 0 /\ Abs(a) <= Abs(b) => v.num * b = a * v.den
                      /\ b # 0 /\ Abs(a) > Abs(b) /\ a * b > 0 => v.num = v.den
                      /\ b # 0 /\ Abs(a) > Abs(b) /\ a * b < 0 => v.num = -v.den
                      /\ nir.vals[k] = 0 /\ red.vals[k] = 0 => v.num = 0

\* two pixels: one where NIR + Red = 0 with NIR # Red, one whose quotient is
\* clipped
C16_Witness ==
    /\ NdviReturned /\ ~DemoMode /\ ~HasSeries /\ BandsGiven({"red", "nir"})
    /\ Len(ndvi_index.vals) = 2
    /\ \E k \in 1..2 :
          /\ satellite_data.bands.nir.vals[k] + satellite_data.bands.red.vals[k] = 0
          /\ satellite_data.bands.nir.vals[k] # 0
          /\ ndvi_index.vals[k].num = 0
    /\ \E k \in 1..2 :
          /\ satellite_data.bands.nir.vals[k] = 8
          /\ satellite_data.bands.red.vals[k] = -2
          /\ ndvi_index.vals[k] = Finite(1, 1)

AllInUnitRange(array) == \A k \in DOMAIN array.vals : InUnitRange(array.vals[k])

\* C17: every index value returned by calculate_ndvi or calculate_evi lies in
\* [-1, 1] on every path of the calculator, including the path where the
\* payload carries a pre-derived NDVI series with values in [-1, 1] and EVI
\* is derived from it as NDVI times a constant.
C17_IndexValuesInRange ==
    /\ NdviReturned => AllInUnitRange(ndvi_index)
    /\ pc = "indices" => AllInUnitRange(evi_index)

(***************************************************************************)
(* Properties of the RegionalScanner                                       *)
(***************************************************************************)
\* the points whose fetch returned a series in which the detector finds a
\* bloom
BloomingPoints ==
    {p \in DOMAIN grid_points :
        /\ ~fetch_outcomes[p].raises
        /\ fetch_outcomes[p].data # None
        /\ detect_blooms(AsSeries(Get(fetch_outcomes[p].data).ndvi_data.values),
                         None, None, None).events # <<>>}

\* the (lat, lon) pairs of a list of results
Locations(results) == {<<results[k].lat, results[k].lon>> : k \in DOMAIN results}

ScanReturned == pc = "scanned" /\ Len(grid_points) <= max_grid_points

\* some thread can take its next step
CanStep ==
    \/ pc = "submitting"
    \/ work_queue # <<>> /\ Cardinality(running) < max_workers
    \/ running # {}
    \/ (DOMAIN future_results) \ yielded # {}
    \/ yielded = DOMAIN grid_points

\* C18: in scan_region a grid point whose fetch or detection fails, raises
\* or returns no bloom is discarded without aborting the scan: for any grid
\* of at most 100 points, any subset of failing points and any interleaving
\* of the worker threads, the scan is never stuck before it returns, it
\* returns status 'success', and its bloom locations are exactly the
\* non-failing points that reported a bloom.
C18_FailedPointsDiscarded ==
    /\ pc \in {"submitting", "collecting"} => CanStep
    /\ ScanReturned =>
          /\ regional_summary.status = "success"
          /\ regional_summary.bloom_detected = (BloomingPoints # {})
          /\ BloomingPoints # {} =>
                /\ Locations(regional_summary.all_bloom_locations)
                       = {grid_points[p] : p \in BloomingPoints}
                /\ Len(regional_summary.all_bloom_locations)
                       = Cardinality(BloomingPoints)
                /\ regional_summary.statistics.total_bloom_locations
                       = Cardinality(BloomingPoints)

\* three points: the first raises, the other two bloom, and the third was
\* collected before the second
C18_Witness ==
    /\ ScanReturned
    /\ Len(grid_points) = 3
    /\ fetch_outcomes[1].raises
    /\ BloomingPoints = {2, 3}
    /\ regional_summary.status = "success"
    /\ regional_summary.all_bloom_locations[1].lon = grid_points[3][2]
    /\ regional_summary.all_bloom_locations[2].lon = grid_points[2][2]

(***************************************************************************)
(* Properties of the bloom boundaries                                      *)
(***************************************************************************)
\* the indices i before the peak whose step to i + 1 rises by less than 0.05
SlowSteps(peak_index) ==
    {i \in 0..(peak_index - 1) : At(Series, i + 1) - At(Series, i) < 5}

\* C19: for every peak_bloom event, start_index is i + 1 for the largest
\* i < peak_index at which series[i+1] - series[i] < 0.05, and 0 only when
\* no index i in 0..peak_index-1 has such a step; so every step
\* series[j+1] - series[j] with start_index <= j < peak_index is >= 0.05.
C19_StartIndex ==
    (Returned /\ IsSeries) =>
        \A k \in EventsOfType("peak_bloom") :
            LET e == bloom_events[k]
                slow == SlowSteps(e.peak_index)
            IN  /\ e.start_index = IF slow = {} THEN 0 ELSE SetMax(slow) + 1
                /\ \A j \in e.start_index..(e.peak_index - 1) :
                      At(Series, j + 1) - At(Series, j) >= 5

\* the indices after the peak and before the last one that the forward scan
\* stops at: not reached by a fall of more than 0.05, value below thr
Resting(peak_index, thr) ==
    {i \in (peak_index + 1)..(Len(Series) - 2) :
        /\ ~(At(Series, i) - At(Series, i - 1) < -5)
        /\ At(Series, i) < thr}

\* C20: for every peak_bloom event, end_index is the first index after the
\* peak, not reached by a step that falls by more than 0.05, whose value is
\* below the threshold in force for the call; if no such index exists
\* before the last observation, end_index is the last index of the series.
C20_EndIndex ==
    (Returned /\ IsSeries) =>
        \A k \in EventsOfType("peak_bloom") :
            LET e == bloom_events[k]
                resting == Resting(e.peak_index, CallThreshold)
            IN  e.end_index = IF resting = {} THEN Len(Series) - 1
                              ELSE SetMin(resting)

(***************************************************************************)
(* Properties of _interpret_trend                                          *)
(***************************************************************************)
TrendLabels ==
    {"no_clear_trend", "stable", "strong_increase", "moderate_increase",
     "strong_decrease", "moderate_decrease"}

\* slope < bound, slope <= bound and slope > bound, bound in hundredths
SlopeBelow(bound) == 100 * trend_slope[1] < bound * trend_slope[2]
SlopeAtMost(bound) == 100 * trend_slope[1] <= bound * trend_slope[2]
SlopeAbove(bound) == 100 * trend_slope[1] > bound * trend_slope[2]

LowCorrelation == 10 * trend_r_squared[1] < 3 * trend_r_squared[2]

\* C21: the interpretation of the peak-value trend depends on (slope, r2)
\* only: r2 < 0.3 gives 'no clear trend' whatever the slope; otherwise
\* |slope| < 0.01 gives stable, slope > 0.05 strong increase,
\* 0.01 <= slope <= 0.05 moderate increase, slope < -0.05 strong decrease,
\* -0.05 <= slope <= -0.01 moderate decrease; one of the six labels is
\* returned for every input.
C21_InterpretTrend ==
    pc = "interpreted" =>
        /\ trend_label \in TrendLabels
        /\ LowCorrelation => trend_label = "no_clear_trend"
        /\ ~LowCorrelation =>
              /\ (SlopeAbove(-1) /\ SlopeBelow(1)) => trend_label = "stable"
              /\ SlopeAbove(5) => trend_label = "strong_increase"
              /\ (~SlopeBelow(1) /\ SlopeAtMost(5))
                     => trend_label = "moderate_increase"
              /\ SlopeBelow(-5) => trend_label = "strong_decrease"
              /\ (~SlopeBelow(-5) /\ SlopeAtMost(-1))
                     => trend_label = "moderate_decrease"

\* a slope of exactly 0.05 with r2 of exactly 0.3 was interpreted
C21_Witness ==
    /\ pc = "interpreted"
    /\ trend_slope = <<50, 1000>>
    /\ trend_r_squared = <<30, 100>>
    /\ trend_label = "moderate_increase"

(***************************************************************************)
(* Properties of _trend_adjusted_prediction                                *)
(***************************************************************************)
\* the regression the trend-adjusted method ran: day of year on year
TimingRegression ==
    LET peaks == HistoryPeaks(historical_blooms)
    IN  linregress([k \in DOMAIN peaks |-> YearOf(peaks[k].date)],
                   [k \in DOMAIN peaks |-> DayOfYear(peaks[k].date)])

TrendAdjusted == pc = "trend_adjusted" /\ prediction.method = "trend_adjusted"

\* |s| < bound / 2 for the day shift per year s = sxy / sxx
ShiftBelowHalves(bound) ==
    2 * Abs(TimingRegression.sxy) < bound * TimingRegression.sxx

\* C22: in the trend_adjusted sub-prediction (3 or more distinct years) the
\* day shift per year s is weak when |s| < 0.5, moderate when
\* 0.5 <= |s| < 2 and strong when |s| >= 2, earlier when s < 0 and later
\* otherwise; its confidence is min(0.7 + 0.2 * |correlation|, 0.92).
C22_TrendClassification ==
    TrendAdjusted =>
        LET reg == TimingRegression
            \* the hundredths of |correlation| in the confidence
            c == (prediction.confidence - 7000) \div 20
        IN  /\ prediction.trend.magnitude =
                   (IF ShiftBelowHalves(1) THEN "weak"
                    ELSE IF ShiftBelowHalves(4) THEN "moderate"
                    ELSE "strong")
            /\ prediction.trend.direction =
                   (IF reg.sxy < 0 THEN "earlier" ELSE "later")
            /\ prediction.confidence <= 9200
            /\ prediction.confidence >= 7000
            /\ c * c * reg.sxx * reg.syy <= 10000 * reg.sxy * reg.sxy
            /\ 10000 * reg.sxy * reg.sxy < (c + 1) * (c + 1) * reg.sxx * reg.syy
                   \/ reg.syy = 0

(***************************************************************************)
(* Properties of the target year                                           *)
(***************************************************************************)
\* the calendar year of a sub-predicted date
SubYear(k) == prediction.prediction_methods[Methods[k]].date[1]

\* C23: in every success result the three sub-predictions that are averaged
\* into the ensemble target the same calendar year, so the ensemble date is
\* never an average of dates a year apart.
C23_SameTargetYear ==
    Succeeded => \A j, k \in DOMAIN Methods : SubYear(j) = SubYear(k)

\* C24: in every success result predicted_date is not earlier than
\* current_date.
C24_NotInThePast ==
    Succeeded =>
        strptime(prediction.predicted_date) >= strptime(prediction.current_date)

(***************************************************************************)
(* Properties of the events of one call                                    *)
(***************************************************************************)
\* C25: the peak_bloom events of one detect_blooms call cover disjoint
\* stretches of the series: for consecutive events the earlier event's
\* end_index does not extend past the later event's peak_index.
C25_DisjointEvents ==
    (Returned /\ IsSeries) =>
        \A j, k \in EventsOfType("peak_bloom") :
            j < k => bloom_events[j].end_index <= bloom_events[k].peak_index

\* C26: for every peak_bloom event start_value <= peak_value, so
\* increase_rate = (peak_value - start_value) / max(peak_index -
\* start_index, 1) is never negative.
C26_IncreaseRate ==
    (Returned /\ IsSeries) =>
        \A k \in EventsOfType("peak_bloom") :
            /\ bloom_events[k].start_ndvi <= bloom_events[k].peak_ndvi
            /\ bloom_events[k].increase_rate[1] >= 0
            /\ bloom_events[k].increase_rate[2] > 0

(***************************************************************************)
(* Properties of the ensemble confidence                                   *)
(***************************************************************************)
HasRecommendation(text) ==
    \E k \in DOMAIN prediction.recommendations :
        prediction.recommendations[k].text = text

\* C27: in every success result the confidence_level label and the
\* confidence-based recommendation agree: 'High' or 'Very High' comes with
\* the 'High confidence prediction' entry and 'Moderate' with the
\* 'Moderate confidence' entry.
C27_LabelMatchesRecommendation ==
    Succeeded =>
        /\ prediction.confidence_level \in {"High", "Very High"}
               => HasRecommendation("High confidence prediction")
        /\ prediction.confidence_level = "Moderate"
               => HasRecommendation("Moderate confidence")

\* C28: every success result has 0.70 <= confidence <= 0.92, each
\* sub-method's confidence being at least 0.70 once 2 historical peak dates
\* exist and the weights summing to 1; so confidence_level is 'High' or
\* 'Very High' and never 'Moderate', 'Low' or 'Very Low'.
C28_ConfidenceRange ==
    Succeeded =>
        /\ \A k \in DOMAIN Methods : SubConfidences[k] >= 7000
        /\ SeqSum(SubWeights) = 100
        /\ prediction.confidence >= 700000
        /\ prediction.confidence <= 920000
        /\ prediction.confidence_level \in {"High", "Very High"}

\* two dated peaks, both of one year: every method at its lowest confidence
C28_Witness ==
    /\ Succeeded
    /\ UsablePeakCount = 2
    /\ prediction.confidence = 700000
    /\ prediction.confidence_level = "High"

(***************************************************************************)
(* Properties of the scan under every completion order                     *)
(***************************************************************************)
\* what _analyze_point returns for grid point p
PointResult(p) ==
    Get(analyze_point(grid_points[p][1], grid_points[p][2], fetch_outcomes[p]))

\* how many blooming points have intensity i
PointsOfIntensity(i) ==
    Cardinality({p \in BloomingPoints : PointResult(p).intensity = i})

\* C29: the outcome of scan_region does not depend on the order in which
\* the worker threads complete: in every interleaving each grid point is
\* consumed exactly once, each blooming point appears exactly once in the
\* bloom locations, and the set of bloom locations, total_bloom_locations
\* and the intensity distribution are those the points determine.
C29_OrderIndependent ==
    /\ analyzed_count = Cardinality(yielded)
    /\ yielded \subseteq DOMAIN grid_points
    /\ ScanReturned =>
          /\ analyzed_count = Len(grid_points)
          /\ BloomingPoints # {} /\ regional_summary.status = "success" =>
                LET found == regional_summary.all_bloom_locations
                IN  /\ {found[k] : k \in DOMAIN found}
                           = {PointResult(p) : p \in BloomingPoints}
                    /\ Len(found) = Cardinality(BloomingPoints)
                    /\ regional_summary.statistics.total_bloom_locations
                           = Cardinality(BloomingPoints)
                    /\ regional_summary.intensity_distribution
                           = [i \in {PointResult(p).intensity : p \in BloomingPoints}
                                 |-> PointsOfIntensity(i)]

\* three blooming points of two intensities, the third submitted being the
\* first collected and the first submitted the last
C29_Witness ==
    /\ ScanReturned
    /\ BloomingPoints = {1, 2, 3}
    /\ regional_summary.status = "success"
    /\ regional_summary.all_bloom_locations[1] = PointResult(3)
    /\ regional_summary.all_bloom_locations[3] = PointResult(1)
    /\ Cardinality(DOMAIN regional_summary.intensity_distribution) = 2

\* C30: in every regional summary returned with blooms detected
\* bloom_coverage.percentage is between 0 and 100, for every bounding box
\* and grid_resolution the scan accepts.
C30_CoveragePercentage ==
    (/\ ScanReturned
     /\ regional_summary.status = "success"
     /\ regional_summary.bloom_detected) =>
        LET percentage == regional_summary.bloom_coverage.percentage
        IN  /\ percentage[2] > 0
            /\ percentage[1] >= 0
            /\ percentage[1] <= 100 * percentage[2]

====
